---- MODULE Spec2Model ----
(***************************************************************************)
(* SOL25 front-end (parse.py): command-line driver, lexer, recursive       *)
(* descent parser, semantic analyzer and XML emission, as a state machine. *)
(* A source text is a sequence of one-character strings; offsets are       *)
(* 0-based as in the Python code, sequences are 1-based as in TLA+.        *)
(***************************************************************************)
EXTENDS Integers, Sequences, FiniteSets, TLC

VARIABLES argv, stdin, pc, code, pos, tokens, ast, sem, stdout, exit_code, phases

vars == <<argv, stdin, pc, code, pos, tokens, ast, sem, stdout, exit_code, phases>>

(***************************************************************************)
(* Error codes (parse.py lines 9-19).  EXIT_UNCAUGHT is the status the     *)
(* Python interpreter ends with when an exception other than SystemExit    *)
(* reaches the top level (a traceback on stderr).                          *)
(***************************************************************************)
ERR_MISSING_PARAM == 10
ERR_OPEN_INPUT == 11
ERR_OPEN_OUTPUT == 12
ERR_LEXICAL == 21
ERR_SYNTACTIC == 22
ERR_MISSING_MAIN == 31
ERR_UNDEFINED_VAR == 32
ERR_ARITY == 33
ERR_VAR_COLLISION == 34
ERR_SEMANTIC_OTHER == 35
ERR_INTERNAL == 99
EXIT_OK == 0
EXIT_UNCAUGHT == 1
RUNNING == -1

(***************************************************************************)
(* Characters.                                                             *)
(***************************************************************************)
Lower == {"a","b","c","d","e","f","g","h","i","j","k","l","m",
          "n","o","p","q","r","s","t","u","v","w","x","y","z"}
Upper == {"A","B","C","D","E","F","G","H","I","J","K","L","M",
          "N","O","P","Q","R","S","T","U","V","W","X","Y","Z"}
Digit == {"0","1","2","3","4","5","6","7","8","9"}
Space == {" ", "\n", "\t", "\r"}
Control == {"\n", "\t", "\r"}
IdentStart == Lower \cup Upper \cup {"_"}
IdentChar == IdentStart \cup Digit

\* str.isupper() / str.islower() of a one-character string
isupper(ch) == ch \in Upper
islower(ch) == ch \in Lower

\* number of elements of s equal to ch (str.count of a one-character string)
RECURSIVE Count(_, _)
Count(s, ch) ==
  IF s = <<>> THEN 0 ELSE (IF Head(s) = ch THEN 1 ELSE 0) + Count(Tail(s), ch)

\* a faulty variant of endswith: the first character is compared
startswith(s, ch) == Len(s) > 0 /\ s[1] = ch

\* str.endswith of a one-character string
endswith(s, ch) == Len(s) > 0 /\ s[Len(s)] = ch

(***************************************************************************)
(* Lexer (parse.py lines 45-130).                                          *)
(***************************************************************************)
Token(type_, value, p) == [type |-> type_, value |-> value, pos |-> p]

\* end offset of the longest run of characters of S starting at offset p
RECURSIVE RunEnd(_, _, _)
RunEnd(c, p, S) ==
  IF p < Len(c) /\ c[p + 1] \in S THEN RunEnd(c, p + 1, S) ELSE p

\* the body (?:\\.|[^q\\])*q of the COMMENT and STRING patterns, scanned from
\* offset p: the offset after the closing quote q, or -1 when there is none
RECURSIVE QuotedEnd(_, _, _)
QuotedEnd(c, p, q) ==
  IF p >= Len(c) THEN -1
  ELSE IF c[p + 1] = "\\"
       THEN (IF p + 1 < Len(c) THEN QuotedEnd(c, p + 2, q) ELSE -1)
  ELSE IF c[p + 1] = q THEN p + 1
  ELSE QuotedEnd(c, p + 1, q)

Punctuation(ch) ==
  CASE ch = ":" -> "COLON"
    [] ch = "[" -> "LBRACKET"
    [] ch = "]" -> "RBRACKET"
    [] ch = "{" -> "LBRACE"
    [] ch = "}" -> "RBRACE"
    [] ch = "(" -> "LPAREN"
    [] ch = ")" -> "RPAREN"
    [] ch = "|" -> "PIPE"
    [] ch = "." -> "DOT"
    [] OTHER -> "OTHER"

\* master_pattern.match(code, p) for p < len(code): the first alternative of
\* token_specification that matches at p, as [type, end]
master_pattern_match(c, p) ==
  LET ch == c[p + 1]
      nx == IF p + 1 < Len(c) THEN c[p + 2] ELSE "EOF"
  IN  IF ch \in Space THEN [type |-> "WHITESPACE", end |-> RunEnd(c, p, Space)]
      ELSE IF ch = "\"" /\ QuotedEnd(c, p + 1, "\"") # -1
           THEN [type |-> "COMMENT", end |-> QuotedEnd(c, p + 1, "\"")]
      ELSE IF ch = ":" /\ nx = "="
           THEN [type |-> "ASSIGN", end |-> p + 2]
      ELSE IF ch \in Digit
           THEN [type |-> "NUMBER", end |-> RunEnd(c, p, Digit)]
      ELSE IF ch \in {"+", "-"} /\ nx \in Digit
           THEN [type |-> "NUMBER", end |-> RunEnd(c, p + 1, Digit)]
      ELSE IF ch = "'" /\ QuotedEnd(c, p + 1, "'") # -1
           THEN [type |-> "STRING", end |-> QuotedEnd(c, p + 1, "'")]
      ELSE IF ch \in IdentStart
           THEN [type |-> "IDENT", end |-> RunEnd(c, p, IdentChar)]
      ELSE [type |-> Punctuation(ch), end |-> p + 1]

\* process_string_literal's loop over content from (1-based) index i with the
\* decoded text so far; [err, value]
RECURSIVE process_string_loop(_, _, _)
process_string_loop(content, i, result) ==
  IF i > Len(content) THEN [err |-> EXIT_OK, value |-> result]
  ELSE IF content[i] = "\\"
       THEN IF i + 1 > Len(content) THEN [err |-> ERR_LEXICAL, value |-> <<>>]
            ELSE IF content[i + 1] = "'"
                 THEN process_string_loop(content, i + 2, Append(result, "'"))
            ELSE IF content[i + 1] = "n"
                 THEN process_string_loop(content, i + 2, Append(result, "\n"))
            ELSE IF content[i + 1] = "\\"
                 THEN process_string_loop(content, i + 2, Append(result, "\\"))
            ELSE [err |-> ERR_LEXICAL, value |-> <<>>]
  ELSE IF content[i] \in Control THEN [err |-> ERR_LEXICAL, value |-> <<>>]
  ELSE process_string_loop(content, i + 1, Append(result, content[i]))

\* a faulty variant of process_string_literal: the literal is kept as written
process_string_literal_raw(literal) == [err |-> EXIT_OK, value |-> literal]

process_string_literal(literal) ==
  process_string_loop(SubSeq(literal, 2, Len(literal) - 1), 1, <<>>)

\* a faulty variant of tokenize_iteration: whitespace is skipped without
\* moving the scan offset past it
tokenize_iteration_not_advancing(c, p, toks) ==
  LET m == master_pattern_match(c, p)
      value == SubSeq(c, p + 1, m.end)
  IN  IF m.type = "WHITESPACE"
      THEN [err |-> EXIT_OK, pos |-> p, tokens |-> toks]
      ELSE IF m.type = "STRING"
      THEN LET d == process_string_literal(value)
           IN  IF d.err # EXIT_OK
               THEN [err |-> d.err, pos |-> p, tokens |-> toks]
               ELSE [err |-> EXIT_OK, pos |-> m.end,
                     tokens |-> Append(toks, Token("STRING", d.value, p))]
      ELSE IF m.type = "OTHER"
      THEN [err |-> ERR_LEXICAL, pos |-> p, tokens |-> toks]
      ELSE [err |-> EXIT_OK, pos |-> m.end,
            tokens |-> Append(toks, Token(m.type, value, p))]

\* one iteration of tokenize's loop at offset p: [err, pos, tokens]
tokenize_iteration(c, p, toks) ==
  LET m == master_pattern_match(c, p)
      value == SubSeq(c, p + 1, m.end)
  IN  IF m.type = "WHITESPACE"
      THEN [err |-> EXIT_OK, pos |-> m.end, tokens |-> toks]
      ELSE IF m.type = "STRING"
      THEN LET d == process_string_literal(value)
           IN  IF d.err # EXIT_OK
               THEN [err |-> d.err, pos |-> p, tokens |-> toks]
               ELSE [err |-> EXIT_OK, pos |-> m.end,
                     tokens |-> Append(toks, Token("STRING", d.value, p))]
      ELSE IF m.type = "OTHER"
      THEN [err |-> ERR_LEXICAL, pos |-> p, tokens |-> toks]
      ELSE [err |-> EXIT_OK, pos |-> m.end,
            tokens |-> Append(toks, Token(m.type, value, p))]

\* the whole of Lexer.tokenize, for reference in properties
RECURSIVE tokenize_from(_, _, _)
tokenize_from(c, p, toks) ==
  IF p >= Len(c) THEN [err |-> EXIT_OK, pos |-> p, tokens |-> toks]
  ELSE LET r == tokenize_iteration(c, p, toks)
       IN  IF r.err # EXIT_OK THEN r ELSE tokenize_from(c, r.pos, r.tokens)

tokenize(c) == tokenize_from(c, 0, <<>>)

(***************************************************************************)
(* Names of the program text, as character sequences.                      *)
(***************************************************************************)
s_class == <<"c","l","a","s","s">>
s_self == <<"s","e","l","f">>
s_super == <<"s","u","p","e","r">>
s_true == <<"t","r","u","e">>
s_false == <<"f","a","l","s","e">>
s_nil == <<"n","i","l">>
s_Main == <<"M","a","i","n">>
s_run == <<"r","u","n">>
s_Object == <<"O","b","j","e","c","t">>
s_Nil == <<"N","i","l">>
s_Integer == <<"I","n","t","e","g","e","r">>
s_String == <<"S","t","r","i","n","g">>
s_Block == <<"B","l","o","c","k">>
s_True == <<"T","r","u","e">>
s_False == <<"F","a","l","s","e">>
m_new == <<"n","e","w">>
m_from_ == <<"f","r","o","m",":">>
m_identicalTo_ == <<"i","d","e","n","t","i","c","a","l","T","o",":">>
m_equalTo_ == <<"e","q","u","a","l","T","o",":">>
m_asString == <<"a","s","S","t","r","i","n","g">>
m_isNumber == <<"i","s","N","u","m","b","e","r">>
m_isString == <<"i","s","S","t","r","i","n","g">>
m_isBlock == <<"i","s","B","l","o","c","k">>
m_isNil == <<"i","s","N","i","l">>
m_greaterThan_ == <<"g","r","e","a","t","e","r","T","h","a","n",":">>
m_plus_ == <<"p","l","u","s",":">>
m_minus_ == <<"m","i","n","u","s",":">>
m_multiplyBy_ == <<"m","u","l","t","i","p","l","y","B","y",":">>
m_divBy_ == <<"d","i","v","B","y",":">>
m_asInteger == <<"a","s","I","n","t","e","g","e","r">>
m_timesRepeat_ == <<"t","i","m","e","s","R","e","p","e","a","t",":">>
m_read == <<"r","e","a","d">>
m_print == <<"p","r","i","n","t">>
m_concatenateWith_ == <<"c","o","n","c","a","t","e","n","a","t","e","W","i","t","h",":">>
m_startsWith_ == <<"s","t","a","r","t","s","W","i","t","h",":">>
m_endsBefore_ == <<"e","n","d","s","B","e","f","o","r","e",":">>
m_value == <<"v","a","l","u","e">>
m_value_ == <<"v","a","l","u","e",":">>
m_value_value_ == <<"v","a","l","u","e",":","v","a","l","u","e",":">>
m_not == <<"n","o","t">>
m_and_ == <<"a","n","d",":">>
m_or_ == <<"o","r",":">>
m_ifTrue_ifFalse_ == <<"i","f","T","r","u","e",":","i","f","F","a","l","s","e",":">>

\* a faulty variant of reserved: the literal names are left out
reserved_without_literals == {s_self, s_super, s_class}

reserved == {s_self, s_super, s_true, s_false, s_nil, s_class}

(***************************************************************************)
(* AST nodes (parse.py lines 133-208).  A Block has no pos field.          *)
(***************************************************************************)
Program(classes, description) == [classes |-> classes, description |-> description]
ClassDef(name, parent, methods) == [name |-> name, parent |-> parent, methods |-> methods]
Method(selector, block) == [selector |-> selector, block |-> block]
Block(parameters, assigns) ==
  [kind |-> "Block", parameters |-> parameters, assigns |-> assigns]
Parameter(name, order) == [name |-> name, order |-> order]
Assignment(var, expr, order) == [var |-> var, expr |-> expr, order |-> order]
Var(name, p) == [kind |-> "Var", name |-> name, pos |-> p]
Literal(literal_class, value, p) ==
  [kind |-> "Literal", literal_class |-> literal_class, value |-> value, pos |-> p]
Send(selector, target, args, p) ==
  [kind |-> "Send", selector |-> selector, target |-> target, args |-> args, pos |-> p]

\* whether reading node.pos succeeds (it raises AttributeError on a Block)
has_pos(node) == node.kind # "Block"

(***************************************************************************)
(* Parser (parse.py lines 212-495).  The parser's fields pos (here a       *)
(* 1-based index into the token list) and last_token_end (lte) are passed  *)
(* to every function as self; a result is [err, val, pos, lte]: err is     *)
(* EXIT_OK, the exit code of error_exit, or EXIT_UNCAUGHT, val the value   *)
(* returned, and pos and lte the parser's fields afterwards, so that a     *)
(* result is the self of the next call.                                    *)
(***************************************************************************)
NoToken == [type |-> "EOF", value |-> <<>>, pos |-> -1]

\* Parser.current_token; self is the parser's state [pos, lte]
current_token(toks, self) ==
  IF self.pos <= Len(toks) THEN toks[self.pos] ELSE NoToken

\* the token after the current one (self.tokens[self.pos + 1], guarded by
\* self.pos + 1 < len(self.tokens) at lines 441 and 482)
next_token(toks, self) ==
  IF self.pos + 1 <= Len(toks) THEN toks[self.pos + 1] ELSE NoToken

Res(val, self) ==
  [err |-> EXIT_OK, val |-> val, pos |-> self.pos, lte |-> self.lte]
Failure(code_, self) ==
  [err |-> code_, val |-> <<>>, pos |-> self.pos, lte |-> self.lte]
\* Parser.error: error_exit(ERR_SYNTACTIC, ...)
error(self) == Failure(ERR_SYNTACTIC, self)

\* Parser.consume; expected = "" stands for expected_type=None
consume(toks, self, expected) ==
  LET token == current_token(toks, self)
  IN  IF token.type = "EOF" THEN error(self)
      ELSE IF expected # "" /\ token.type # expected THEN error(self)
      ELSE [err |-> EXIT_OK, val |-> token, pos |-> self.pos + 1,
            lte |-> token.pos + Len(token.value)]

\* The functions of the parser call one another.  Each such call is written
\* call_parser(name, arguments), which applies the function of that name
\* (call_parser is defined after them) to the tuple of arguments.
RECURSIVE call_parser(_, _)

\* the while loop of parse_selector (lines 314-325)
parse_selector_loop(toks, self, selector) ==
  IF current_token(toks, self).type # "COLON" THEN Res(selector, self)
  ELSE IF current_token(toks, self).pos # self.lte THEN error(self)
  ELSE LET c == consume(toks, self, "COLON")
           nxt == current_token(toks, c)
       IN  IF nxt.type = "IDENT"
           THEN IF nxt.pos # c.lte THEN error(c)
                ELSE LET i == consume(toks, c, "IDENT")
                     IN  call_parser("parse_selector_loop",
                           <<toks, i, Append(selector, ":") \o i.val.value>>)
           ELSE call_parser("parse_selector_loop", <<toks, c, Append(selector, ":")>>)

\* lines 305-330
parse_selector(toks, self) ==
  LET t == consume(toks, self, "IDENT")
      r == call_parser("parse_selector_loop", <<toks, t, t.val.value>>)
  IN  IF t.err # EXIT_OK THEN t
      ELSE IF ~islower(t.val.value[1]) THEN error(t)
      ELSE IF r.err # EXIT_OK THEN r
      ELSE IF Count(r.val, ":") = 0 /\ r.val \in reserved THEN error(r)
      ELSE r

\* the parameter loop of parse_block (lines 348-363)
parse_parameters_loop(toks, self, parameters) ==
  IF current_token(toks, self).type # "COLON" THEN Res(parameters, self)
  ELSE LET colon == consume(toks, self, "COLON")
           cur == current_token(toks, colon)
           param == consume(toks, colon, "IDENT")
           name == param.val.value
       IN  IF cur.type # "IDENT" THEN error(colon)
           ELSE IF cur.pos # colon.val.pos + Len(colon.val.value) THEN error(colon)
           ELSE IF ~(islower(name[1]) \/ name[1] = "_") THEN error(param)
           ELSE IF name \in reserved THEN error(param)
           ELSE call_parser("parse_parameters_loop",
                  <<toks, param, Append(parameters, Parameter(name, Len(parameters) + 1))>>)

\* the block header of parse_block (lines 335-366): the value is the
\* parameter list
parse_block_header(toks, self) ==
  LET cur == current_token(toks, self)
      ps == call_parser("parse_parameters_loop", <<toks, self, <<>>>>)
  IN  IF cur.type = "PIPE" THEN Res(<<>>, consume(toks, self, "PIPE"))
      ELSE IF cur.type # "COLON" THEN error(self)
      ELSE IF ps.err # EXIT_OK THEN ps
      ELSE IF current_token(toks, ps).type # "PIPE" THEN error(ps)
      ELSE Res(ps.val, consume(toks, ps, "PIPE"))

\* BlockLiteral -> "[" BlockHeader BlockCommands "]" (lines 332-377)
parse_block(toks, self) ==
  LET lb == consume(toks, self, "LBRACKET")
      header == parse_block_header(toks, lb)
      body == call_parser("parse_assigns_loop", <<toks, header, <<>>>>)
      rb == consume(toks, body, "RBRACKET")
  IN  IF lb.err # EXIT_OK THEN lb
      ELSE IF header.err # EXIT_OK THEN header
      ELSE IF body.err # EXIT_OK THEN body
      ELSE IF rb.err # EXIT_OK THEN rb
      ELSE Res(Block(header.val, body.val), rb)

\* the assignment loop of parse_block (lines 371-375)
parse_assigns_loop(toks, self, assigns) ==
  IF current_token(toks, self).type \in {"EOF", "RBRACKET"} THEN Res(assigns, self)
  ELSE LET a == call_parser("parse_assignment", <<toks, self, Len(assigns) + 1>>)
       IN  IF a.err # EXIT_OK THEN a
           ELSE call_parser("parse_assigns_loop", <<toks, a, Append(assigns, a.val)>>)

\* Assignment -> IDENT ASSIGN Expression DOT (lines 379-393)
parse_assignment(toks, self, order) ==
  LET v == consume(toks, self, "IDENT")
      asg == consume(toks, v, "ASSIGN")
      e == call_parser("parse_expr", <<toks, asg>>)
      dot == consume(toks, e, "DOT")
  IN  IF v.err # EXIT_OK THEN v
      ELSE IF v.val.value \in reserved THEN error(v)
      ELSE IF asg.err # EXIT_OK THEN asg
      ELSE IF e.err # EXIT_OK THEN e
      ELSE IF dot.err # EXIT_OK THEN dot
      ELSE Res(Assignment(Var(v.val.value, v.val.pos), e.val, order), dot)

\* lines 395-398
parse_expr(toks, self) ==
  LET base == call_parser("parse_expr_base", <<toks, self>>)
  IN  IF base.err # EXIT_OK THEN base
      ELSE call_parser("parse_expr_tail", <<toks, base, base.val>>)

\* the node built from an IDENT token (lines 423-434)
ident_node(token) ==
  IF token.value = s_true THEN Literal("True", s_true, token.pos)
  ELSE IF token.value = s_false THEN Literal("False", s_false, token.pos)
  ELSE IF token.value = s_nil THEN Literal("Nil", s_nil, token.pos)
  ELSE IF isupper(token.value[1]) THEN Literal("class", token.value, token.pos)
  ELSE Var(token.value, token.pos)

\* lines 400-436
parse_expr_base(toks, self) ==
  LET token == current_token(toks, self)
      t == consume(toks, self, token.type)
      e == call_parser("parse_expr", <<toks, t>>)
      rp == consume(toks, e, "RPAREN")
  IN  IF token.type = "EOF" THEN error(self)
      ELSE IF token.type = "LPAREN"
      THEN IF e.err # EXIT_OK THEN e
           ELSE IF rp.err # EXIT_OK THEN rp
           ELSE Res(e.val, rp)
      ELSE IF token.type = "LBRACKET" THEN call_parser("parse_block", <<toks, self>>)
      ELSE IF token.type = "NUMBER" THEN Res(Literal("Integer", token.value, token.pos), t)
      ELSE IF token.type = "STRING" THEN Res(Literal("String", token.value, token.pos), t)
      ELSE IF token.type = "IDENT" THEN Res(ident_node(token), t)
      ELSE error(self)

\* lines 438-450
parse_expr_tail(toks, self, base) ==
  LET cur == current_token(toks, self)
      s == call_parser("parse_send_tail", <<toks, self, base>>)
      token == consume(toks, self, "IDENT")
  IN  IF cur.type = "IDENT" /\ next_token(toks, self).type # "COLON"
      THEN call_parser("parse_expr_tail",
             <<toks, token, Send(cur.value, base, <<>>, cur.pos)>>)
      ELSE IF cur.type \in {"IDENT", "COLON"}
      THEN IF s.err # EXIT_OK THEN s
           ELSE call_parser("parse_expr_tail", <<toks, s, s.val>>)
      ELSE Res(base, self)

\* a faulty variant of parse_send_part: a gap between the identifier and its
\* colon is let through
parse_send_part_any_gap(toks, self, selector, args) ==
  LET named == current_token(toks, self).type = "IDENT"
      ident == IF named THEN consume(toks, self, "IDENT") ELSE Res(NoToken, self)
      cur == current_token(toks, ident)
      colon == consume(toks, ident, "COLON")
      arg == call_parser("parse_expr_base", <<toks, colon>>)
  IN  IF cur.type # "COLON" THEN error(ident)
      ELSE IF arg.err # EXIT_OK THEN arg
      ELSE Res([selector |-> Append(selector \o ident.val.value, ":"),
                args |-> Append(args, arg.val)], arg)

\* a faulty variant of parse_send_part: the argument replaces the list of
\* arguments instead of being appended to it
parse_send_part_dropping_argument(toks, self, selector, args) ==
  LET named == current_token(toks, self).type = "IDENT"
      ident == IF named THEN consume(toks, self, "IDENT") ELSE Res(NoToken, self)
      cur == current_token(toks, ident)
      colon == consume(toks, ident, "COLON")
      arg == call_parser("parse_expr_base", <<toks, colon>>)
  IN  IF named /\ (cur.type # "COLON" \/ cur.pos # ident.val.pos + Len(ident.val.value))
      THEN error(ident)
      ELSE IF ~named /\ cur.type # "COLON" THEN error(self)
      ELSE IF arg.err # EXIT_OK THEN arg
      ELSE Res([selector |-> Append(selector \o ident.val.value, ":"),
                args |-> <<arg.val>>], arg)

\* one selector component IDENT ":" argument of _parse_send_tail (lines
\* 463-471 and 485-492), or ":" argument alone when there is no IDENT (lines
\* 474-479); the value is [selector, args] extended by the component
parse_send_part(toks, self, selector, args) ==
  LET named == current_token(toks, self).type = "IDENT"
      ident == IF named THEN consume(toks, self, "IDENT") ELSE Res(NoToken, self)
      cur == current_token(toks, ident)
      colon == consume(toks, ident, "COLON")
      arg == call_parser("parse_expr_base", <<toks, colon>>)
  IN  IF named /\ (cur.type # "COLON" \/ cur.pos # ident.val.pos + Len(ident.val.value))
      THEN error(ident)
      ELSE IF ~named /\ cur.type # "COLON" THEN error(self)
      ELSE IF arg.err # EXIT_OK THEN arg
      ELSE Res([selector |-> Append(selector \o ident.val.value, ":"),
                args |-> Append(args, arg.val)], arg)

\* the loop over the subsequent selector components (lines 481-492)
parse_send_parts(toks, self, selector, args) ==
  IF current_token(toks, self).type = "IDENT" /\ next_token(toks, self).type = "COLON"
  THEN LET part == parse_send_part(toks, self, selector, args)
       IN  IF part.err # EXIT_OK THEN part
           ELSE call_parser("parse_send_parts",
                  <<toks, part, part.val.selector, part.val.args>>)
  ELSE Res([selector |-> selector, args |-> args], self)

\* _parse_send_tail (lines 452-495); reading base.pos at line 495 raises
\* AttributeError when base is a Block
parse_send_tail(toks, self, base) ==
  LET first == parse_send_part(toks, self, <<>>, <<>>)
      parts == call_parser("parse_send_parts",
                 <<toks, first, first.val.selector, first.val.args>>)
  IN  IF first.err # EXIT_OK THEN first
      ELSE IF parts.err # EXIT_OK THEN parts
      ELSE IF ~has_pos(base) THEN Failure(EXIT_UNCAUGHT, parts)
      ELSE Res(Send(parts.val.selector, base, parts.val.args, base.pos), parts)

\* MethodDef -> Selector BlockLiteral (lines 296-303)
parse_method(toks, self) ==
  LET selector == call_parser("parse_selector", <<toks, self>>)
      block == call_parser("parse_block", <<toks, selector>>)
  IN  IF selector.err # EXIT_OK THEN selector
      ELSE IF block.err # EXIT_OK THEN block
      ELSE Res(Method(selector.val, block.val), block)

\* the method loop of parse_class (lines 290-292)
parse_methods_loop(toks, self, methods) ==
  IF current_token(toks, self).type \in {"EOF", "RBRACE"} THEN Res(methods, self)
  ELSE LET m == call_parser("parse_method", <<toks, self>>)
       IN  IF m.err # EXIT_OK THEN m
           ELSE call_parser("parse_methods_loop", <<toks, m, Append(methods, m.val)>>)

\* a class or parent identifier: uppercase first letter, no underscore
valid_class_identifier(value) == isupper(value[1]) /\ Count(value, "_") = 0

\* ClassDef -> "class" IDENT ":" IDENT "{" { MethodDef } "}" (lines 268-294)
parse_class(toks, self) ==
  LET token == consume(toks, self, "IDENT")
      name == consume(toks, token, "IDENT")
      colon == consume(toks, name, "COLON")
      parent == consume(toks, colon, "IDENT")
      lbrace == consume(toks, parent, "LBRACE")
      methods == call_parser("parse_methods_loop", <<toks, lbrace, <<>>>>)
      rbrace == consume(toks, methods, "RBRACE")
  IN  IF token.err # EXIT_OK THEN token
      ELSE IF token.val.value # s_class THEN error(token)
      ELSE IF name.err # EXIT_OK THEN name
      ELSE IF ~valid_class_identifier(name.val.value) THEN error(name)
      ELSE IF colon.err # EXIT_OK THEN colon
      ELSE IF parent.err # EXIT_OK THEN parent
      ELSE IF ~valid_class_identifier(parent.val.value) THEN error(parent)
      ELSE IF lbrace.err # EXIT_OK THEN lbrace
      ELSE IF methods.err # EXIT_OK THEN methods
      ELSE IF rbrace.err # EXIT_OK THEN rbrace
      ELSE Res(ClassDef(name.val.value, parent.val.value, methods.val), rbrace)

\* the class loop of parse (lines 263-265)
parse_classes_loop(toks, self, classes) ==
  IF current_token(toks, self).type = "EOF" THEN Res(classes, self)
  ELSE LET cls == call_parser("parse_class", <<toks, self>>)
       IN  IF cls.err # EXIT_OK THEN cls
           ELSE call_parser("parse_classes_loop", <<toks, cls, Append(classes, cls.val)>>)

\* the parser function named f applied to the arguments a
call_parser(f, a) ==
  CASE f = "parse_class" -> parse_class(a[1], a[2])
    [] f = "parse_classes_loop" -> parse_classes_loop(a[1], a[2], a[3])
    [] f = "parse_method" -> parse_method(a[1], a[2])
    [] f = "parse_methods_loop" -> parse_methods_loop(a[1], a[2], a[3])
    [] f = "parse_selector" -> parse_selector(a[1], a[2])
    [] f = "parse_selector_loop" -> parse_selector_loop(a[1], a[2], a[3])
    [] f = "parse_block" -> parse_block(a[1], a[2])
    [] f = "parse_parameters_loop" -> parse_parameters_loop(a[1], a[2], a[3])
    [] f = "parse_assigns_loop" -> parse_assigns_loop(a[1], a[2], a[3])
    [] f = "parse_assignment" -> parse_assignment(a[1], a[2], a[3])
    [] f = "parse_expr" -> parse_expr(a[1], a[2])
    [] f = "parse_expr_base" -> parse_expr_base(a[1], a[2])
    [] f = "parse_expr_tail" -> parse_expr_tail(a[1], a[2], a[3])
    [] f = "parse_send_tail" -> parse_send_tail(a[1], a[2], a[3])
    [] f = "parse_send_parts" -> parse_send_parts(a[1], a[2], a[3], a[4])

\* str.strip('"'): drop every leading and trailing double quote
RECURSIVE strip_quotes(_)
strip_quotes(s) ==
  IF s # <<>> /\ Head(s) = "\"" THEN strip_quotes(Tail(s))
  ELSE IF s # <<>> /\ s[Len(s)] = "\"" THEN strip_quotes(SubSeq(s, 1, Len(s) - 1))
  ELSE s

\* description of parse (lines 253-257): [present, text]
description_of(toks) ==
  LET comments == SelectSeq(toks, LAMBDA t : t.type = "COMMENT")
  IN  IF comments = <<>> THEN [present |-> FALSE, text |-> <<>>]
      ELSE [present |-> TRUE, text |-> strip_quotes(comments[1].value)]

\* Parser.parse (lines 250-266)
parse(toks) ==
  LET filtered == SelectSeq(toks, LAMBDA t : t.type # "COMMENT")
      classes == call_parser("parse_classes_loop",
                   <<filtered, [pos |-> 1, lte |-> 0], <<>>>>)
  IN  IF classes.err # EXIT_OK THEN classes
      ELSE Res(Program(classes.val, description_of(toks)), classes)

(***************************************************************************)
(* Built-in class tables (parse.py lines 21-39).                           *)
(***************************************************************************)
builtin_classes == {s_Object, s_Nil, s_Integer, s_String, s_Block, s_True, s_False}

\* builtin_parents.get(cls_name, None); <<>> stands for None
builtin_parents(cls_name) ==
  IF cls_name \in builtin_classes \ {s_Object} THEN s_Object ELSE <<>>

\* builtin_methods.get(cls_name, set())
builtin_methods(cls_name) ==
  IF cls_name = s_Object
  THEN {m_new, m_from_, m_identicalTo_, m_equalTo_, m_asString, m_isNumber,
        m_isString, m_isBlock, m_isNil}
  ELSE IF cls_name = s_Nil THEN {m_asString}
  ELSE IF cls_name = s_Integer
  THEN {m_equalTo_, m_greaterThan_, m_plus_, m_minus_, m_multiplyBy_, m_divBy_,
        m_asString, m_asInteger, m_timesRepeat_}
  ELSE IF cls_name = s_String
  THEN {m_read, m_print, m_equalTo_, m_asString, m_asInteger, m_concatenateWith_,
        m_startsWith_, m_endsBefore_}
  ELSE IF cls_name = s_Block THEN {m_value, m_value_, m_value_value_}
  ELSE IF cls_name \in {s_True, s_False} THEN {m_not, m_and_, m_or_, m_ifTrue_ifFalse_}
  ELSE {}

(***************************************************************************)
(* Semantic analyzer (parse.py lines 528-812).                             *)
(***************************************************************************)
\* the index of the first element of s that satisfies Dup against an earlier
\* one, or 0: the loops of lines 588-591 and 596-599
FirstRepeat(names) ==
  LET hits == {i \in 1..Len(names) : \E j \in 1..(i - 1) : names[j] = names[i]}
  IN  IF hits = {} THEN 0 ELSE CHOOSE i \in hits : \A k \in hits : i <= k

ClassNames(program) == [i \in 1..Len(program.classes) |-> program.classes[i].name]
Selectors(cls) == [i \in 1..Len(cls.methods) |-> cls.methods[i].selector]

\* lines 587-591
duplicate_class(program) == FirstRepeat(ClassNames(program)) # 0

\* lines 594-599
duplicate_method(program) ==
  \E i \in 1..Len(program.classes) : FirstRepeat(Selectors(program.classes[i])) # 0

\* lines 602-611: the exit code of the Main check, EXIT_OK when it passes.
\* The loops visit classes and methods in source order and stop at the first
\* run method of a Main class that has parameters.
main_check_methods(cls) ==
  LET runs == {j \in 1..Len(cls.methods) : cls.methods[j].selector = s_run}
  IN  [bad |-> \E j \in runs : Len(cls.methods[j].block.parameters) # 0,
       found |-> runs # {}]

\* a faulty variant of main_check: the parameters of run are not looked at
main_check_presence_only(program) ==
  LET mains == {i \in 1..Len(program.classes) : program.classes[i].name = s_Main}
  IN  IF \E i \in mains : main_check_methods(program.classes[i]).found
      THEN EXIT_OK
      ELSE ERR_MISSING_MAIN

main_check(program) ==
  LET mains == {i \in 1..Len(program.classes) : program.classes[i].name = s_Main}
  IN  IF \E i \in mains : main_check_methods(program.classes[i]).bad
      THEN ERR_ARITY
      ELSE IF \E i \in mains : main_check_methods(program.classes[i]).found
      THEN EXIT_OK
      ELSE ERR_MISSING_MAIN

\* seen of lines 587-591, kept as class_map (line 615): name -> class node
class_map_of(program) ==
  [n \in {program.classes[i].name : i \in 1..Len(program.classes)} |->
     program.classes[CHOOSE i \in 1..Len(program.classes) :
                       program.classes[i].name = n]]

\* lines 619-621
undefined_parent(program, global_classes) ==
  \E i \in 1..Len(program.classes) :
     /\ program.classes[i].parent # s_Object
     /\ program.classes[i].parent \notin global_classes
     /\ program.classes[i].parent \notin builtin_classes

\* _dfs_check (lines 654-667): [found, visited]
RECURSIVE dfs_check(_, _, _)
dfs_check(class_map, cls_name, visited) ==
  LET v1 == [visited EXCEPT ![cls_name] = 1]
      parent == class_map[cls_name].parent
      done(v) == [found |-> FALSE, visited |-> [v EXCEPT ![cls_name] = 2]]
  IN  IF parent \in DOMAIN class_map
      THEN IF v1[parent] = 1 THEN [found |-> TRUE, visited |-> v1]
           ELSE IF v1[parent] = 0
           THEN LET r == dfs_check(class_map, parent, v1)
                IN  IF r.found THEN r ELSE done(r.visited)
           ELSE done(v1)
      ELSE done(v1)

\* the loop of check_circular_inheritance (lines 648-652) over the class
\* names in insertion order, from index i
RECURSIVE circular_from(_, _, _, _)
circular_from(class_map, names, i, visited) ==
  IF i > Len(names) THEN FALSE
  ELSE IF visited[names[i]] = 0
       THEN LET r == dfs_check(class_map, names[i], visited)
            IN  IF r.found THEN TRUE
                ELSE circular_from(class_map, names, i + 1, r.visited)
       ELSE circular_from(class_map, names, i + 1, visited)

\* a faulty variant of check_circular_inheritance: only a class that names
\* itself as parent is found
check_self_parent_only(program, class_map) ==
  \E i \in 1..Len(program.classes) :
     program.classes[i].parent = program.classes[i].name

check_circular_inheritance(program, class_map) ==
  circular_from(class_map, ClassNames(program), 1, [n \in DOMAIN class_map |-> 0])

\* whether expr is the variable self
is_self(expr) == expr.kind = "Var" /\ expr.name = s_self

\* selector[:-1]
attr_name_of(selector) == SubSeq(selector, 1, Len(selector) - 1)

RECURSIVE collect_dynamic_attributes_expr(_, _)
RECURSIVE collect_dynamic_attributes_args(_, _, _)
RECURSIVE collect_dynamic_attributes_from(_, _, _)

\* lines 669-686; attrs is dynamic_attrs[current_class.name]
collect_dynamic_attributes_expr(expr, attrs) ==
  IF expr.kind = "Send"
  THEN LET a1 == IF is_self(expr.target) /\ endswith(expr.selector, ":")
                 THEN attrs \cup {attr_name_of(expr.selector)}
                 ELSE attrs
           a2 == collect_dynamic_attributes_expr(expr.target, a1)
       IN  collect_dynamic_attributes_args(expr.args, 1, a2)
  ELSE IF expr.kind = "Block"
  THEN collect_dynamic_attributes_from(expr.assigns, 1, attrs)
  ELSE attrs

collect_dynamic_attributes_args(args, i, attrs) ==
  IF i > Len(args) THEN attrs
  ELSE collect_dynamic_attributes_args(args, i + 1,
         collect_dynamic_attributes_expr(args[i], attrs))

collect_dynamic_attributes_from(assigns, i, attrs) ==
  IF i > Len(assigns) THEN attrs
  ELSE collect_dynamic_attributes_from(assigns, i + 1,
         collect_dynamic_attributes_expr(assigns[i].expr, attrs))

\* lines 688-694
collect_dynamic_attributes(block, attrs) ==
  collect_dynamic_attributes_from(block.assigns, 1, attrs)

\* collect_class_dynamic_attributes (lines 568-575), from method i
RECURSIVE collect_class_dynamic_attributes_from(_, _, _)
collect_class_dynamic_attributes_from(methods, i, attrs) ==
  IF i > Len(methods) THEN attrs
  ELSE collect_class_dynamic_attributes_from(methods, i + 1,
         collect_dynamic_attributes(methods[i].block, attrs))

collect_class_dynamic_attributes(cls, attrs) ==
  collect_class_dynamic_attributes_from(cls.methods, 1, attrs)

\* lines 627-632: dynamic_attrs after the preliminary pass
harvest(program) ==
  [n \in {program.classes[i].name : i \in 1..Len(program.classes)} |->
     collect_class_dynamic_attributes(
       program.classes[CHOOSE i \in 1..Len(program.classes) :
                         program.classes[i].name = n], {})]

\* lookup_builtin_method (lines 556-566)
RECURSIVE lookup_builtin_method(_, _)
lookup_builtin_method(cls_name, selector) ==
  IF selector \in builtin_methods(cls_name) THEN TRUE
  ELSE IF builtin_parents(cls_name) # <<>>
       THEN lookup_builtin_method(builtin_parents(cls_name), selector)
  ELSE FALSE

RECURSIVE lookup_method(_, _, _)

\* a faulty variant of lookup_method: the parent of a user-defined class is
\* not consulted
lookup_method_without_parents(class_map, cls_name, selector) ==
  IF cls_name \in DOMAIN class_map
  THEN \E i \in 1..Len(class_map[cls_name].methods) :
         class_map[cls_name].methods[i].selector = selector
  ELSE lookup_builtin_method(cls_name, selector)

\* lookup_method (lines 534-554)
lookup_method(class_map, cls_name, selector) ==
  IF cls_name \in DOMAIN class_map
  THEN LET cls_node == class_map[cls_name]
       IN  IF \E i \in 1..Len(cls_node.methods) : cls_node.methods[i].selector = selector
           THEN TRUE
           ELSE IF cls_node.parent \in DOMAIN class_map
                THEN lookup_method(class_map, cls_node.parent, selector)
                ELSE lookup_builtin_method(cls_node.parent, selector)
  ELSE lookup_builtin_method(cls_name, selector)

\* the first method of the class with this selector (lines 761-764), 0 if none
method_found(current_class, selector) ==
  LET hits == {i \in 1..Len(current_class.methods) :
                 current_class.methods[i].selector = selector}
  IN  IF hits = {} THEN 0 ELSE CHOOSE i \in hits : \A k \in hits : i <= k

Ok(attrs) == [err |-> EXIT_OK, attrs |-> attrs]
Err(code_, attrs) == [err |-> code_, attrs |-> attrs]

\* a faulty variant of analyze_self_send: a method of the class with the
\* selector is accepted with any number of arguments
analyze_self_send_any_arity(expr, current_class, attrs) ==
  LET m == method_found(current_class, expr.selector)
  IN  IF m # 0 THEN Ok(attrs)
      ELSE IF endswith(expr.selector, ":")
      THEN IF Len(expr.args) # 1 THEN Err(ERR_ARITY, attrs)
           ELSE Ok(attrs \cup {attr_name_of(expr.selector)})
      ELSE IF Len(expr.args) # 0 THEN Err(ERR_ARITY, attrs)
      ELSE IF expr.selector \notin attrs THEN Err(ERR_UNDEFINED_VAR, attrs)
      ELSE Ok(attrs)

\* the self-send branch of analyze_expr (lines 758-790)
analyze_self_send(expr, current_class, attrs) ==
  LET m == method_found(current_class, expr.selector)
  IN  IF m # 0
      THEN IF Len(current_class.methods[m].block.parameters) # Len(expr.args)
           THEN Err(ERR_ARITY, attrs) ELSE Ok(attrs)
      ELSE IF endswith(expr.selector, ":")
      THEN IF Len(expr.args) # 1 THEN Err(ERR_ARITY, attrs)
           ELSE Ok(attrs \cup {attr_name_of(expr.selector)})
      ELSE IF Len(expr.args) # 0 THEN Err(ERR_ARITY, attrs)
      ELSE IF expr.selector \notin attrs THEN Err(ERR_UNDEFINED_VAR, attrs)
      ELSE Ok(attrs)

\* the class-receiver branches of analyze_expr (lines 791-812)
analyze_class_send(expr, class_map) ==
  IF expr.target.kind = "Literal" /\ expr.target.literal_class = "class"
     /\ ~lookup_method(class_map, expr.target.value, expr.selector)
  THEN ERR_UNDEFINED_VAR
  ELSE IF expr.target.kind = "Var" /\ isupper(expr.target.name[1])
          /\ ~lookup_method(class_map, expr.target.name, expr.selector)
  THEN ERR_UNDEFINED_VAR
  ELSE EXIT_OK

RECURSIVE analyze_expr(_, _, _, _, _)
RECURSIVE analyze_args(_, _, _, _, _, _)

\* analyze_expr (lines 726-812); env is the set of names of the environment,
\* attrs is dynamic_attrs[current_class.name]; [err, attrs].  A Block node
\* matches none of the isinstance tests and is left unanalyzed.
analyze_expr(expr, env, current_class, class_map, attrs) ==
  IF expr.kind = "Var"
  THEN IF expr.name \notin env
       THEN IF isupper(expr.name[1])
            THEN IF expr.name \notin DOMAIN class_map
                 THEN Err(ERR_UNDEFINED_VAR, attrs) ELSE Ok(attrs)
            ELSE Err(ERR_UNDEFINED_VAR, attrs)
       ELSE Ok(attrs)
  ELSE IF expr.kind = "Literal"
  THEN IF expr.literal_class = "class"
          /\ expr.value \notin DOMAIN class_map
          /\ expr.value \notin builtin_classes
       THEN Err(ERR_UNDEFINED_VAR, attrs) ELSE Ok(attrs)
  ELSE IF expr.kind = "Send"
  THEN IF expr.selector \in reserved THEN Err(ERR_SYNTACTIC, attrs)
       ELSE
       LET t == analyze_expr(expr.target, env, current_class, class_map, attrs)
       IN  IF t.err # EXIT_OK THEN t
           ELSE
           LET a == analyze_args(expr.args, 1, env, current_class, class_map, t.attrs)
           IN  IF a.err # EXIT_OK THEN a
               ELSE
               LET s == IF is_self(expr.target)
                        THEN analyze_self_send(expr, current_class, a.attrs)
                        ELSE Ok(a.attrs)
               IN  IF s.err # EXIT_OK THEN s
                   ELSE IF analyze_class_send(expr, class_map) # EXIT_OK
                        THEN Err(analyze_class_send(expr, class_map), s.attrs)
                   ELSE s
  ELSE Ok(attrs)

\* the loop over expr.args (lines 755-756)
analyze_args(args, i, env, current_class, class_map, attrs) ==
  IF i > Len(args) THEN Ok(attrs)
  ELSE LET r == analyze_expr(args[i], env, current_class, class_map, attrs)
       IN  IF r.err # EXIT_OK THEN r
           ELSE analyze_args(args, i + 1, env, current_class, class_map, r.attrs)

RECURSIVE analyze_assigns(_, _, _, _, _, _, _)

\* a faulty variant of analyze_assigns: the right-hand side is analyzed
\* before the target is compared with the parameters
analyze_assigns_rhs_first(assigns, i, params, locals, current_class, class_map, attrs) ==
  IF i > Len(assigns) THEN Ok(attrs)
  ELSE LET r == analyze_expr(assigns[i].expr, params \cup locals,
                             current_class, class_map, attrs)
       IN  IF r.err # EXIT_OK THEN r
           ELSE IF assigns[i].var.name \in params THEN Err(ERR_VAR_COLLISION, attrs)
           ELSE analyze_assigns(assigns, i + 1, params,
                                locals \cup {assigns[i].var.name},
                                current_class, class_map, r.attrs)

\* a faulty variant of analyze_assigns: the target is a local already when
\* the right-hand side is analyzed
analyze_assigns_target_first(assigns, i, params, locals, current_class, class_map, attrs) ==
  IF i > Len(assigns) THEN Ok(attrs)
  ELSE IF assigns[i].var.name \in params THEN Err(ERR_VAR_COLLISION, attrs)
  ELSE LET r == analyze_expr(assigns[i].expr,
                             params \cup locals \cup {assigns[i].var.name},
                             current_class, class_map, attrs)
       IN  IF r.err # EXIT_OK THEN r
           ELSE analyze_assigns(assigns, i + 1, params,
                                locals \cup {assigns[i].var.name},
                                current_class, class_map, r.attrs)

\* the assignment loop of analyze_block (lines 719-724); params and locals
\* are the names env maps to "param" and to "local"
analyze_assigns(assigns, i, params, locals, current_class, class_map, attrs) ==
  IF i > Len(assigns) THEN Ok(attrs)
  ELSE IF assigns[i].var.name \in params THEN Err(ERR_VAR_COLLISION, attrs)
  ELSE LET r == analyze_expr(assigns[i].expr, params \cup locals,
                             current_class, class_map, attrs)
       IN  IF r.err # EXIT_OK THEN r
           ELSE analyze_assigns(assigns, i + 1, params,
                                locals \cup {assigns[i].var.name},
                                current_class, class_map, r.attrs)

ParameterNames(block) == [i \in 1..Len(block.parameters) |-> block.parameters[i].name]

\* analyze_block (lines 696-724): [err, attrs]
analyze_block(block, current_class, class_map, attrs) ==
  IF FirstRepeat(ParameterNames(block)) # 0 THEN Err(ERR_SEMANTIC_OTHER, attrs)
  ELSE analyze_assigns(block.assigns, 1,
         {block.parameters[i].name : i \in 1..Len(block.parameters)} \cup {s_self},
         {}, current_class, class_map,
         collect_dynamic_attributes(block, attrs))

\* the call of lookup_method that analyze_expr makes for the send itself
\* (lines 792-794 and 803-805), after its target and arguments
own_lookup_call(expr) ==
  IF expr.target.kind = "Literal" /\ expr.target.literal_class = "class"
  THEN <<[cls_name |-> expr.target.value, selector |-> expr.selector]>>
  ELSE IF expr.target.kind = "Var" /\ isupper(expr.target.name[1])
  THEN <<[cls_name |-> expr.target.name, selector |-> expr.selector]>>
  ELSE <<>>

\* the call of the send itself, made when its arguments have been analyzed
\* with outcome a and the checks of a send to self (lines 758-790) pass
lookup_calls_own(expr, current_class, a) ==
  IF a.err # EXIT_OK THEN <<>>
  ELSE IF is_self(expr.target)
          /\ analyze_self_send(expr, current_class, a.attrs).err # EXIT_OK
  THEN <<>>
  ELSE own_lookup_call(expr)

RECURSIVE lookup_calls_expr(_, _, _, _, _)
RECURSIVE lookup_calls_send(_, _, _, _, _)
RECURSIVE lookup_calls_args(_, _, _, _, _, _)
RECURSIVE lookup_calls_rest(_, _, _, _, _, _)
RECURSIVE next_lookup_assigns(_, _, _, _, _, _, _, _)
RECURSIVE next_lookup_pick(_, _, _, _, _, _, _, _, _)
RECURSIVE next_lookup_after(_, _, _, _, _, _, _, _)

\* the calls lookup_method(cls_name, selector) that analyze_expr makes on
\* expr, in order, up to the error that ends the analysis if there is one:
\* those of the target (line 754), then those of the rest of the send
lookup_calls_expr(expr, env, current_class, class_map, attrs) ==
  IF expr.kind # "Send" THEN <<>>
  ELSE IF expr.selector \in reserved THEN <<>>
  ELSE lookup_calls_expr(expr.target, env, current_class, class_map, attrs)
       \o lookup_calls_send(expr, env, current_class, class_map,
            analyze_expr(expr.target, env, current_class, class_map, attrs))

\* the calls of a send after its target, analyzed with outcome t: those of
\* the arguments (lines 755-756), then its own
lookup_calls_send(expr, env, current_class, class_map, t) ==
  IF t.err # EXIT_OK THEN <<>>
  ELSE lookup_calls_args(expr.args, 1, env, current_class, class_map, t.attrs)
       \o lookup_calls_own(expr, current_class,
            analyze_args(expr.args, 1, env, current_class, class_map, t.attrs))

\* the loop over expr.args (lines 755-756) from argument i on
lookup_calls_args(args, i, env, current_class, class_map, attrs) ==
  IF i > Len(args) THEN <<>>
  ELSE lookup_calls_expr(args[i], env, current_class, class_map, attrs)
       \o lookup_calls_rest(args, i, env, current_class, class_map,
            analyze_expr(args[i], env, current_class, class_map, attrs))

\* the arguments after argument i, analyzed with outcome r
lookup_calls_rest(args, i, env, current_class, class_map, r) ==
  IF r.err # EXIT_OK THEN <<>>
  ELSE lookup_calls_args(args, i + 1, env, current_class, class_map, r.attrs)

\* the k-th call of lookup_method that the assignment loop of analyze_block
\* (lines 719-724) makes from assignment i on, as a sequence of one call, or
\* <<>> when the loop ends before
next_lookup_assigns(assigns, i, params, locals, current_class, class_map, attrs, k) ==
  IF i > Len(assigns) THEN <<>>
  ELSE IF assigns[i].var.name \in params THEN <<>>
  ELSE next_lookup_pick(assigns, i, params, locals, current_class, class_map, attrs, k,
         lookup_calls_expr(assigns[i].expr, params \cup locals,
                           current_class, class_map, attrs))

\* c is the calls of assignment i: the k-th call is one of them or one of a
\* later assignment; the outcome of assignment i is looked at only when all
\* its calls are before the k-th
next_lookup_pick(assigns, i, params, locals, current_class, class_map, attrs, k, c) ==
  IF k <= Len(c) THEN <<c[k]>>
  ELSE next_lookup_after(assigns, i, params, locals, current_class, class_map,
         k - Len(c),
         analyze_expr(assigns[i].expr, params \cup locals,
                      current_class, class_map, attrs))

\* the assignments after assignment i, analyzed with outcome r
next_lookup_after(assigns, i, params, locals, current_class, class_map, k, r) ==
  IF r.err # EXIT_OK THEN <<>>
  ELSE next_lookup_assigns(assigns, i + 1, params,
                           locals \cup {assigns[i].var.name},
                           current_class, class_map, r.attrs, k)

\* the k-th call of lookup_method that analyze_block (lines 696-724) makes
next_lookup(block, current_class, class_map, attrs, k) ==
  IF FirstRepeat(ParameterNames(block)) # 0 THEN <<>>
  ELSE next_lookup_assigns(block.assigns, 1,
         {block.parameters[i].name : i \in 1..Len(block.parameters)} \cup {s_self},
         {}, current_class, class_map,
         collect_dynamic_attributes(block, attrs), k)

\* the (class, method) pairs of the loop of lines 635-637, in source order
RECURSIVE method_list_from(_, _)
method_list_from(classes, i) ==
  IF i > Len(classes) THEN <<>>
  ELSE [j \in 1..Len(classes[i].methods) |-> [cls |-> i, method |-> j]]
       \o method_list_from(classes, i + 1)

method_list(program) == method_list_from(program.classes, 1)

(***************************************************************************)
(* XML generation (parse.py lines 815-880): the element tree that          *)
(* generate_xml builds, as [tag, attrib, children].  Its serialisation to  *)
(* text (ET.tostring, replace_in_literals) is not modelled.                *)
(***************************************************************************)
Element(tag, attrib, children) == [tag |-> tag, attrib |-> attrib, children |-> children]

RECURSIVE generate_xml_block(_)
RECURSIVE generate_xml_expr(_)

generate_xml_block(block) ==
  Element("block", [arity |-> Len(block.parameters)],
    [i \in 1..Len(block.parameters) |->
       Element("parameter", [name |-> block.parameters[i].name,
                             order |-> block.parameters[i].order], <<>>)]
    \o
    [i \in 1..Len(block.assigns) |->
       Element("assign", [order |-> block.assigns[i].order],
         << Element("var", [name |-> block.assigns[i].var.name], <<>>),
            Element("expr", <<>>, <<generate_xml_expr(block.assigns[i].expr)>>) >>)])

generate_xml_expr(expr) ==
  IF expr.kind = "Literal"
  THEN Element("literal", [class |-> expr.literal_class, value |-> expr.value], <<>>)
  ELSE IF expr.kind = "Var" THEN Element("var", [name |-> expr.name], <<>>)
  ELSE IF expr.kind = "Block" THEN generate_xml_block(expr)
  ELSE Element("send", [selector |-> expr.selector],
         << Element("expr", <<>>, <<generate_xml_expr(expr.target)>>) >>
         \o
         [i \in 1..Len(expr.args) |->
            Element("arg", [order |-> i],
              << Element("expr", <<>>, <<generate_xml_expr(expr.args[i])>>) >>)])

generate_xml(program) ==
  Element("program", [language |-> "SOL25", description |-> program.description],
    [i \in 1..Len(program.classes) |->
       Element("class", [name |-> program.classes[i].name,
                         parent |-> program.classes[i].parent],
         [j \in 1..Len(program.classes[i].methods) |->
            Element("method", [selector |-> program.classes[i].methods[j].selector],
              <<generate_xml_block(program.classes[i].methods[j].block)>>)])])

(***************************************************************************)
(* The run of main (parse.py lines 895-927) as a state machine.            *)
(*   pc         where the run is                                           *)
(*   argv       sys.argv[1:]                                               *)
(*   stdin      the text on standard input                                 *)
(*   code, pos, tokens   the lexer's fields and its scan offset            *)
(*   ast        the Program the parser returned                            *)
(*   sem        the analyzer's fields class_map and dynamic_attrs, the     *)
(*              index of the next method block to analyze, and the call of *)
(*              lookup_method or lookup_builtin_method that is under way   *)
(*   stdout     what has been printed to standard output                   *)
(*   exit_code  the exit status, RUNNING until the process ends            *)
(*   phases     the phases entered so far, in order                        *)
(***************************************************************************)
EmptyProgram == Program(<<>>, [present |-> FALSE, text |-> <<>>])
\* no call of lookup_method has been made.  A call is [fn, cls_name,
\* selector]: the function entered and its arguments, fn being "returned"
\* with the value returned once the call is over; method and number tell
\* which call of which method block it is
NoCall == [fn |-> "none", cls_name |-> <<>>, selector |-> <<>>,
           method |-> 0, number |-> 0, value |-> FALSE]
EmptySem == [class_map |-> <<>>, dynamic_attrs |-> <<>>, next |-> 0, call |-> NoCall]

InitWith(args, text) ==
  /\ argv = args
  /\ stdin = text
  /\ pc = "args"
  /\ code = <<>>
  /\ pos = 0
  /\ tokens = <<>>
  /\ ast = EmptyProgram
  /\ sem = EmptySem
  /\ stdout = <<>>
  /\ exit_code = RUNNING
  /\ phases = <<>>

\* error_exit(code, message) (lines 41-43), and the end of an uncaught exception
error_exit(code_) ==
  /\ pc' = "exit"
  /\ exit_code' = code_

\* lines 897-904
main_args ==
  /\ pc = "args"
  /\ IF Len(argv) = 1 /\ argv[1] \in {"-h", "--help"}
     THEN /\ stdout' = Append(stdout, "usage")
          /\ error_exit(EXIT_OK)
     ELSE IF Len(argv) # 0
     THEN /\ error_exit(ERR_MISSING_PARAM)
          /\ UNCHANGED stdout
     ELSE /\ pc' = "read"
          /\ UNCHANGED <<stdout, exit_code>>
  /\ UNCHANGED <<argv, stdin, code, pos, tokens, ast, sem, phases>>

\* lines 907-913: sys.stdin.read() either returns the text or raises
main_read ==
  /\ pc = "read"
  /\ \E raised \in BOOLEAN :
       IF raised
       THEN /\ error_exit(ERR_OPEN_INPUT)
            /\ UNCHANGED <<code, phases>>
       ELSE /\ code' = stdin
            /\ pc' = "lex"
            /\ phases' = Append(phases, "lex")
            /\ UNCHANGED exit_code
  /\ UNCHANGED <<argv, stdin, pos, tokens, ast, sem, stdout>>

\* one iteration of the loop of Lexer.tokenize (lines 109-129)
tokenize_step ==
  /\ pc = "lex"
  /\ pos < Len(code)
  /\ LET r == tokenize_iteration(code, pos, tokens)
     IN  IF r.err # EXIT_OK
         THEN /\ error_exit(r.err)
              /\ UNCHANGED <<pos, tokens>>
         ELSE /\ pos' = r.pos
              /\ tokens' = r.tokens
              /\ UNCHANGED <<pc, exit_code>>
  /\ UNCHANGED <<argv, stdin, code, ast, sem, stdout, phases>>

\* the loop of tokenize ends and the tokens are returned (lines 109, 130)
tokenize_return ==
  /\ pc = "lex"
  /\ pos >= Len(code)
  /\ pc' = "parse"
  /\ UNCHANGED <<argv, stdin, code, pos, tokens, ast, sem, stdout, exit_code, phases>>

\* a faulty variant of parser_parse: the XML of the AST is printed as soon as
\* the parser returns, before the semantic analysis
parser_parse_printing ==
  /\ pc = "parse"
  /\ phases' = Append(phases, "parse")
  /\ LET r == parse(tokens)
     IN  IF r.err # EXIT_OK
         THEN /\ error_exit(r.err)
              /\ UNCHANGED <<ast, stdout>>
         ELSE /\ ast' = r.val
              /\ stdout' = Append(stdout, generate_xml(r.val))
              /\ pc' = "sem_classes"
              /\ UNCHANGED exit_code
  /\ UNCHANGED <<argv, stdin, code, pos, tokens, sem>>

\* lines 917-918: Parser(tokens).parse()
parser_parse ==
  /\ pc = "parse"
  /\ phases' = Append(phases, "parse")
  /\ LET r == parse(tokens)
     IN  IF r.err # EXIT_OK
         THEN /\ error_exit(r.err)
              /\ UNCHANGED ast
         ELSE /\ ast' = r.val
              /\ pc' = "sem_classes"
              /\ UNCHANGED exit_code
  /\ UNCHANGED <<argv, stdin, code, pos, tokens, sem, stdout>>

\* lines 921-922 and 587-591: analyze starts with the duplicate class check
analyze_duplicate_classes ==
  /\ pc = "sem_classes"
  /\ phases' = Append(phases, "semantic")
  /\ IF duplicate_class(ast)
     THEN error_exit(ERR_SEMANTIC_OTHER)
     ELSE pc' = "sem_methods" /\ UNCHANGED exit_code
  /\ UNCHANGED <<argv, stdin, code, pos, tokens, ast, sem, stdout>>

\* lines 594-599
analyze_duplicate_methods ==
  /\ pc = "sem_methods"
  /\ IF duplicate_method(ast)
     THEN error_exit(ERR_SEMANTIC_OTHER)
     ELSE pc' = "sem_main" /\ UNCHANGED exit_code
  /\ UNCHANGED <<argv, stdin, code, pos, tokens, ast, sem, stdout, phases>>

\* lines 602-616
analyze_main ==
  /\ pc = "sem_main"
  /\ IF main_check(ast) # EXIT_OK
     THEN error_exit(main_check(ast)) /\ UNCHANGED sem
     ELSE /\ sem' = [sem EXCEPT !.class_map = class_map_of(ast)]
          /\ pc' = "sem_parents"
          /\ UNCHANGED exit_code
  /\ UNCHANGED <<argv, stdin, code, pos, tokens, ast, stdout, phases>>

\* a faulty variant of analyze_parents: the inheritance cycles are looked for
\* before the parents are resolved
analyze_parents_after_cycle ==
  /\ pc = "sem_parents"
  /\ IF check_circular_inheritance(ast, sem.class_map)
     THEN error_exit(ERR_SEMANTIC_OTHER)
     ELSE IF undefined_parent(ast, DOMAIN sem.class_map)
     THEN error_exit(ERR_UNDEFINED_VAR)
     ELSE pc' = "sem_cycle" /\ UNCHANGED exit_code
  /\ UNCHANGED <<argv, stdin, code, pos, tokens, ast, sem, stdout, phases>>

\* lines 619-621
analyze_parents ==
  /\ pc = "sem_parents"
  /\ IF undefined_parent(ast, DOMAIN sem.class_map)
     THEN error_exit(ERR_UNDEFINED_VAR)
     ELSE pc' = "sem_cycle" /\ UNCHANGED exit_code
  /\ UNCHANGED <<argv, stdin, code, pos, tokens, ast, sem, stdout, phases>>

\* a faulty variant of analyze_cycle: the inheritance cycles are not looked for
analyze_cycle_unchecked ==
  /\ pc = "sem_cycle"
  /\ pc' = "sem_harvest"
  /\ UNCHANGED <<argv, stdin, code, pos, tokens, ast, sem, stdout, exit_code, phases>>

\* line 624
analyze_cycle ==
  /\ pc = "sem_cycle"
  /\ IF check_circular_inheritance(ast, sem.class_map)
     THEN error_exit(ERR_SEMANTIC_OTHER)
     ELSE pc' = "sem_harvest" /\ UNCHANGED exit_code
  /\ UNCHANGED <<argv, stdin, code, pos, tokens, ast, sem, stdout, phases>>

\* lines 627-632
analyze_harvest ==
  /\ pc = "sem_harvest"
  /\ sem' = [sem EXCEPT !.dynamic_attrs = harvest(ast), !.next = 1]
  /\ pc' = IF method_list(ast) = <<>> THEN "emit" ELSE "sem_blocks"
  /\ UNCHANGED <<argv, stdin, code, pos, tokens, ast, stdout, exit_code, phases>>

\* one iteration of the loops of lines 635-637: analyze_block of one method
analyze_method ==
  /\ pc = "sem_blocks"
  /\ LET at == method_list(ast)[sem.next]
         cls == ast.classes[at.cls]
         r == analyze_block(cls.methods[at.method].block, cls, sem.class_map,
                            sem.dynamic_attrs[cls.name])
     IN  /\ sem' = [sem EXCEPT !.dynamic_attrs[cls.name] = r.attrs,
                               !.next = IF r.err = EXIT_OK THEN @ + 1 ELSE @]
         /\ IF r.err # EXIT_OK
            THEN error_exit(r.err)
            ELSE /\ pc' = IF sem.next = Len(method_list(ast)) THEN "emit" ELSE "sem_blocks"
                 /\ UNCHANGED exit_code
  /\ UNCHANGED <<argv, stdin, code, pos, tokens, ast, stdout, phases>>

\* how many calls of lookup_method of the method block that is analyzed
\* next have returned
calls_returned == IF sem.call.method = sem.next THEN sem.call.number ELSE 0

\* the call of lookup_method that the analysis of that block makes next, as
\* a sequence of one call, <<>> if it makes no more
call_of_next_method ==
  LET at == method_list(ast)[sem.next]
      cls == ast.classes[at.cls]
  IN  next_lookup(cls.methods[at.method].block, cls, sem.class_map,
                  sem.dynamic_attrs[cls.name], calls_returned + 1)

\* analyze_expr calls self.lookup_method(cls_name, expr.selector) (lines 794, 805)
analyze_expr_lookup ==
  /\ pc = "sem_blocks"
  /\ \E c \in {call_of_next_method} :
       /\ c # <<>>
       /\ sem' = [sem EXCEPT !.call =
                    [fn |-> "lookup_method",
                     cls_name |-> c[1].cls_name,
                     selector |-> c[1].selector,
                     method |-> sem.next,
                     number |-> calls_returned + 1,
                     value |-> FALSE]]
  /\ pc' = "lookup"
  /\ UNCHANGED <<argv, stdin, code, pos, tokens, ast, stdout, exit_code, phases>>

\* the call under way returns value to analyze_expr
lookup_return(value) ==
  /\ sem' = [sem EXCEPT !.call.fn = "returned", !.call.value = value]
  /\ pc' = "sem_blocks"

\* the call under way ends with a call of fn(cls_name, selector), whose value
\* it returns
lookup_enter(fn, cls_name) ==
  /\ sem' = [sem EXCEPT !.call.fn = fn, !.call.cls_name = cls_name]
  /\ pc' = "lookup"

\* one activation of lookup_method (lines 534-554)
lookup_method_step ==
  /\ pc = "lookup"
  /\ sem.call.fn = "lookup_method"
  /\ IF sem.call.cls_name \in DOMAIN sem.class_map
     THEN IF \E i \in 1..Len(sem.class_map[sem.call.cls_name].methods) :
               sem.class_map[sem.call.cls_name].methods[i].selector = sem.call.selector
          THEN lookup_return(TRUE)
          ELSE IF sem.class_map[sem.call.cls_name].parent \in DOMAIN sem.class_map
          THEN lookup_enter("lookup_method", sem.class_map[sem.call.cls_name].parent)
          ELSE lookup_enter("lookup_builtin_method", sem.class_map[sem.call.cls_name].parent)
     ELSE lookup_enter("lookup_builtin_method", sem.call.cls_name)
  /\ UNCHANGED <<argv, stdin, code, pos, tokens, ast, stdout, exit_code, phases>>

\* one activation of lookup_builtin_method (lines 556-566)
lookup_builtin_method_step ==
  /\ pc = "lookup"
  /\ sem.call.fn = "lookup_builtin_method"
  /\ IF sem.call.selector \in builtin_methods(sem.call.cls_name)
     THEN lookup_return(TRUE)
     ELSE IF builtin_parents(sem.call.cls_name) # <<>>
     THEN lookup_enter("lookup_builtin_method", builtin_parents(sem.call.cls_name))
     ELSE lookup_return(FALSE)
  /\ UNCHANGED <<argv, stdin, code, pos, tokens, ast, stdout, exit_code, phases>>

\* analyze_block of one method, once its calls of lookup_method have returned
analyze_method_looked_up ==
  /\ pc = "sem_blocks"
  /\ call_of_next_method = <<>>
  /\ analyze_method

\* lines 925-927: generate_xml and print, then the process ends with status 0
main_emit ==
  /\ pc = "emit"
  /\ phases' = Append(phases, "xml")
  /\ stdout' = Append(stdout, generate_xml(ast))
  /\ error_exit(EXIT_OK)
  /\ UNCHANGED <<argv, stdin, code, pos, tokens, ast, sem>>

Next ==
  \/ main_args
  \/ main_read
  \/ tokenize_step
  \/ tokenize_return
  \/ parser_parse
  \/ analyze_duplicate_classes
  \/ analyze_duplicate_methods
  \/ analyze_main
  \/ analyze_parents
  \/ analyze_cycle
  \/ analyze_harvest
  \/ analyze_method
  \/ main_emit

(***************************************************************************)
(* Source texts the runs are started on.  Every text is a possible content *)
(* of standard input; the families below are built from the lexemes of     *)
(* the language so that preconditions can be stated on the text itself.    *)
(***************************************************************************)
MaxStmts == 2
MaxClasses == 2

SP == <<" ">>
id_x == <<"x">>
id_y == <<"y">>
id_z == <<"z">>
id_a == <<"a">>
id_b == <<"b">>
id_m == <<"m">>
id_v == <<"v">>
id_w == <<"w">>
cls_A == <<"A">>
cls_B == <<"B">>
num_1 == <<"1">>
num_2 == <<"2">>
BadChar == <<"#">>
CommentText == <<"\"", "c", "\"">>

\* v := e.
StatementText(lhs, expr) == lhs \o <<":", "=">> \o expr \o <<".">>
\* target k: arg, with the text gap between the identifier and its colon
KeywordText(target, k, gap, arg) == target \o SP \o k \o gap \o <<":">> \o arg
\* target k
UnaryText(target, k) == target \o SP \o k
\* :p1:p2 ...
RECURSIVE ParametersText(_)
ParametersText(names) ==
  IF names = <<>> THEN <<>> ELSE <<":">> \o Head(names) \o ParametersText(Tail(names))
\* [ :p1:p2 | body ]
BlockText(names, body) == <<"[">> \o ParametersText(names) \o <<"|">> \o body \o <<"]">>
\* selector [ ... ]
MethodText(selector, names, body) == selector \o BlockText(names, body)
\* class name:parent{methods}
ClassText(name, parent, methods) ==
  s_class \o SP \o name \o <<":">> \o parent \o <<"{">> \o methods \o <<"}">>
\* class Main:Object{run[|body]methods}
MainText(body, methods) ==
  ClassText(s_Main, s_Object, MethodText(s_run, <<>>, body) \o methods)

self_x == UnaryText(s_self, id_x)
self_x_1 == KeywordText(s_self, id_x, <<>>, num_1)

st_number == StatementText(id_x, num_1)                        \* x:=1.
st_getter == StatementText(id_y, self_x)                       \* y:=self x.
st_setter == StatementText(id_z, self_x_1)                     \* z:=self x:1.
st_bare_setter == self_x_1 \o <<".">>                          \* self x:1.
st_nested_getter ==                                            \* y:=[|z:=self x.].
  StatementText(id_y, BlockText(<<>>, StatementText(id_z, self_x)))
st_nested_setter ==                                            \* y:=[|z:=self x:1.].
  StatementText(id_y, BlockText(<<>>, StatementText(id_z, self_x_1)))
st_block_keyword ==                                            \* y:=[|] a:1.
  StatementText(id_y, KeywordText(BlockText(<<>>, <<>>), id_a, <<>>, num_1))
st_variable == StatementText(id_y, id_x)                       \* y:=x.
st_two_keywords ==                                             \* z:=self a:1 b:2.
  StatementText(id_z, KeywordText(KeywordText(s_self, id_a, <<>>, num_1),
                                  id_b, <<>>, num_2))
st_no_assign == id_x \o SP \o num_1 \o <<".">>                  \* x 1.

CoreStatements ==
  {st_number, st_getter, st_setter, st_bare_setter, st_nested_getter,
   st_nested_setter, st_block_keyword, st_variable, st_two_keywords}

\* all sequences of at most n statements of S, concatenated
RECURSIVE Bodies(_, _)
Bodies(S, n) ==
  IF n = 0 THEN {<<>>}
  ELSE LET shorter == Bodies(S, n - 1)
       IN  shorter \cup {b \o s : b \in shorter, s \in S}

CorePrograms == {MainText(body, <<>>) : body \in Bodies(CoreStatements, MaxStmts)}

\* a second method beside run: selectors against parameter lists, and
\* attribute access from another method
MethodSelectors == {id_m, Append(id_m, ":"), Append(id_m, ":") \o Append(id_b, ":"),
                    id_x, Append(id_x, ":")}
MethodParameters == {<<>>, <<id_v>>, <<id_v, id_w>>, <<id_v, id_v>>}
MethodBodies == {<<>>, st_getter, st_setter}
SecondMethods ==
  {MethodText(sel, names, body) :
     sel \in MethodSelectors, names \in MethodParameters, body \in MethodBodies}
MethodPrograms ==
  {MainText(body, m) : body \in {<<>>, st_getter, st_setter, st_nested_getter},
                       m \in SecondMethods}

\* reads and writes of the attribute x of Main, in run and in a second method
\* m, in programs that offend against no other rule
AttributeStatements ==
  {st_number, st_getter, st_setter, st_nested_getter, st_nested_setter}
AttributeMethods ==
  {<<>>, MethodText(id_m, <<>>, st_getter), MethodText(id_m, <<>>, st_setter)}
AttributePrograms ==
  {MainText(body, m) : body \in Bodies(AttributeStatements, MaxStmts),
                       m \in AttributeMethods}

\* expressions: a target followed by a message tail
TargetTexts ==
  {num_1, id_x, s_self, cls_A, s_Integer, BlockText(<<>>, <<>>),
   <<"(">> \o KeywordText(num_1, id_a, <<>>, num_2) \o <<")">>}
TailTexts ==
  {<<>>,
   SP \o id_b,
   SP \o id_b \o SP \o id_a,
   SP \o id_a \o <<":">> \o num_1,
   SP \o id_a \o <<":">> \o num_1 \o SP \o id_b,
   SP \o id_a \o <<":">> \o num_1 \o SP \o id_b \o <<":">> \o num_2,
   SP \o id_a \o <<":">> \o <<"(">> \o KeywordText(num_1, id_b, <<>>, num_2) \o <<")">>,
   <<":">> \o num_2,
   SP \o id_a \o <<":">> \o id_b \o SP \o <<":">> \o num_2}
ExpressionPrograms ==
  {MainText(StatementText(id_y, target \o tail), <<>>) :
     target \in TargetTexts, tail \in TailTexts}

\* uses of a reserved identifier r: as the target of an assignment, as a
\* parameter of a block literal, as a colon-free method selector and as a
\* parameter of a method block; [stmt, method] is placed by ProbeText
ReservedLhsText(r) == StatementText(r, num_1)                  \* r:=1.
ReservedBlockParamText(r) == StatementText(id_y, BlockText(<<r>>, <<>>))  \* y:=[:r|].
ReservedSelectorText(r) == MethodText(r, <<>>, <<>>)           \* r[|]
ReservedMethodParamText(r) == MethodText(Append(id_m, ":"), <<r>>, <<>>)  \* m:[:r|]

\* the identifiers probed: self, super, true, false, nil, class
ReservedWords == {s_self, s_super, s_true, s_false, s_nil, s_class}

ReservedUses(r) ==
  {[stmt |-> ReservedLhsText(r), method |-> <<>>],
   [stmt |-> ReservedBlockParamText(r), method |-> <<>>],
   [stmt |-> <<>>, method |-> ReservedSelectorText(r)],
   [stmt |-> <<>>, method |-> ReservedMethodParamText(r)]}

\* keyword parts k: written with a gap between k and the colon
Gaps == {SP, <<"\n">>, CommentText}
GapUses(gap) ==
  {\* y:=1 a :2.
   [stmt |-> StatementText(id_y, KeywordText(num_1, id_a, gap, num_2)), method |-> <<>>],
   \* y:=1 a:2 b :1.
   [stmt |-> StatementText(id_y,
               KeywordText(KeywordText(num_1, id_a, <<>>, num_2), id_b, gap, num_1)),
    method |-> <<>>],
   \* y:=self x :1.
   [stmt |-> StatementText(id_y, KeywordText(s_self, id_x, gap, num_1)), method |-> <<>>],
   \* m :[:v|]
   [stmt |-> <<>>, method |-> MethodText(id_m \o gap \o <<":">>, <<id_v>>, <<>>)],
   \* m:b :[:v:w|]
   [stmt |-> <<>>,
    method |-> MethodText(Append(id_m, ":") \o id_b \o gap \o <<":">>, <<id_v, id_w>>, <<>>)]}

\* class Main:Object{run[|pre stmt]method}post
ProbeText(pre, use, post) == MainText(pre \o use.stmt, use.method) \o post

\* what may stand before the probed construct in the body of run, and after
\* the program
ValidBefore == {<<>>, st_number}
BlockKeywordBefore == {st_block_keyword}
LexicalErrorBefore == {BadChar}
SyntaxErrorBefore == {st_no_assign}
AnyBefore == ValidBefore \cup BlockKeywordBefore \cup LexicalErrorBefore
             \cup SyntaxErrorBefore
NothingAfter == {<<>>}
LexicalErrorAfter == {BadChar}
AnyAfter == NothingAfter \cup LexicalErrorAfter

ReservedPrograms(Before, After) ==
  {ProbeText(pre, use, post) :
     pre \in Before, use \in UNION {ReservedUses(r) : r \in ReservedWords}, post \in After}

GapPrograms(Before, After) ==
  {ProbeText(pre, use, post) :
     pre \in Before, use \in UNION {GapUses(gap) : gap \in Gaps}, post \in After}

\* the scenarios of the specification, with their spacing
ScenarioHead ==                                     \* class Main : Object { run [|
  s_class \o SP \o s_Main \o SP \o <<":">> \o SP \o s_Object \o SP \o <<"{">> \o SP
  \o s_run \o SP \o <<"[", "|">>
ScenarioA == ScenarioHead \o <<"]", "}">>
ScenarioB ==                                        \* class Foo : Object { run [|]}
  s_class \o SP \o <<"F", "o", "o">> \o SP \o <<":">> \o SP \o s_Object \o SP
  \o <<"{">> \o SP \o s_run \o SP \o <<"[", "|", "]", "}">>
ScenarioC ==                                        \* class Main : Object { run [:x|]}
  s_class \o SP \o s_Main \o SP \o <<":">> \o SP \o s_Object \o SP \o <<"{">> \o SP
  \o s_run \o SP \o <<"[", ":", "x", "|", "]", "}">>
ScenarioD ==                      \* ... run [| self x: 1. y := self x. ] }
  ScenarioHead \o SP \o s_self \o SP \o <<"x", ":", " ", "1", ".", " ">>
  \o <<"y", " ", ":", "=", " ">> \o s_self \o <<" ", "x", ".", " ", "]", " ", "}">>
ScenarioDAssigned ==              \* ... run [| z := self x: 1. y := self x. ] }
  ScenarioHead \o SP \o <<"z", " ", ":", "=", " ">> \o s_self \o SP
  \o <<"x", ":", " ", "1", ".", " ">>
  \o <<"y", " ", ":", "=", " ">> \o s_self \o <<" ", "x", ".", " ", "]", " ", "}">>
ScenarioE ==                      \* ... run [| y := self x. ] }
  ScenarioHead \o SP \o <<"y", " ", ":", "=", " ">> \o s_self
  \o <<" ", "x", ".", " ", "]", " ", "}">>
CycleAB ==                        \* class A : B {} class B : A {}
  s_class \o <<" ", "A", " ", ":", " ", "B", " ", "{", "}", " ">>
  \o s_class \o <<" ", "B", " ", ":", " ", "A", " ", "{", "}">>
CycleABTight ==                   \* class A:B{} class B:A{}
  s_class \o <<" ", "A", ":", "B", "{", "}", " ">>
  \o s_class \o <<" ", "B", ":", "A", "{", "}">>
ScenarioF == ScenarioA \o SP \o CycleAB
ScenarioG ==                      \* ... run [| x := 1 plus : 2. ] }
  ScenarioHead \o <<" ", "x", " ", ":", "=", " ", "1", " ", "p", "l", "u", "s", " ",
                    ":", " ", "2", ".", " ", "]", " ", "}">>
Scenarios == {ScenarioA, ScenarioB, ScenarioC, ScenarioD, ScenarioDAssigned,
              ScenarioE, ScenarioF, ScenarioG, CycleAB, CycleABTight}

\* class hierarchies: at most MaxClasses classes Main, A, B with parents
\* among Object, Main, A, B and several method lists, some with a block that
\* the block analysis rejects
RunText == MethodText(s_run, <<>>, <<>>)                       \* run[|]
RunWithParameterText == MethodText(s_run, <<id_v>>, <<>>)      \* run[:v|]
RunUndefinedText == MethodText(s_run, <<>>, StatementText(id_y, id_x))   \* run[|y:=x.]
ParameterAssignedText ==                                       \* m[:v|v:=1.]
  MethodText(id_m, <<id_v>>, StatementText(id_v, num_1))
UndefinedReadText == MethodText(id_m, <<>>, StatementText(id_y, id_x))   \* m[|y:=x.]
ClassHeads ==
  {[name |-> s_Main, methods |-> <<>>],
   [name |-> s_Main, methods |-> RunText],
   [name |-> s_Main, methods |-> RunWithParameterText],
   [name |-> s_Main, methods |-> RunText \o RunWithParameterText],
   [name |-> s_Main, methods |-> RunText \o ParameterAssignedText],
   [name |-> s_Main, methods |-> RunUndefinedText \o ParameterAssignedText],
   [name |-> cls_A, methods |-> <<>>],
   [name |-> cls_A, methods |-> UndefinedReadText],
   [name |-> cls_B, methods |-> <<>>]}
ClassParents == {s_Object, s_Main, cls_A, cls_B}
ClassTexts ==
  {ClassText(h.name, parent, h.methods) : h \in ClassHeads, parent \in ClassParents}
HierarchyPrograms == Bodies(ClassTexts, MaxClasses)

\* command lines other than the empty one
OtherArguments == {<<"-h">>, <<"--help">>, <<"-x">>, <<"-h", "-h">>}

BodyInputs ==
  CorePrograms \cup MethodPrograms \cup AttributePrograms \cup ExpressionPrograms
  \cup ReservedPrograms(AnyBefore, AnyAfter) \cup GapPrograms(AnyBefore, AnyAfter)
  \cup Scenarios

HierarchyInputs == HierarchyPrograms \cup Scenarios

Init ==
  \/ \E text \in BodyInputs : InitWith(<<>>, text)
  \/ \E args \in OtherArguments : InitWith(args, <<>>)

InitHierarchy ==
  \/ \E text \in HierarchyInputs : InitWith(<<>>, text)
  \/ \E args \in OtherArguments : InitWith(args, <<>>)

Spec == Init /\ [][Next]_vars

SpecHierarchy == InitHierarchy /\ [][Next]_vars

(***************************************************************************)
(* The lexer alone: runs that read a text and tokenize it.  The texts are  *)
(* all the character sequences of at most MaxLen characters of             *)
(* LexAlphabet: an identifier letter (also the escape letter n), a digit,  *)
(* a sign, the two quotes, the backslash, the colon, the equals sign and   *)
(* the newline (whitespace outside a literal, a control character inside). *)
(***************************************************************************)
MaxLen == 4

LexAlphabet == {"n", "1", "+", "'", "\"", "\\", ":", "=", "\n"}

LexTexts == UNION {[1..n -> LexAlphabet] : n \in 0..MaxLen}

InitLex == \E text \in LexTexts : InitWith(<<>>, text)

\* main up to the return of Lexer.tokenize (lines 897-916)
LexNext ==
  \/ main_args
  \/ main_read
  \/ tokenize_step
  \/ tokenize_return

SpecLex == InitLex /\ [][LexNext]_vars

\* the loop of tokenize is not suspended: an iteration that can run does run
SpecLexFair == InitLex /\ [][LexNext]_vars /\ WF_vars(LexNext)

(***************************************************************************)
(* Programs for the semantic analysis of method bodies.                    *)
(***************************************************************************)
id_k == <<"k">>
id_q == <<"q">>
m_foo == <<"f","o","o">>

\* the name before the colon of a one-keyword selector
Stem(selector) == SubSeq(selector, 1, Len(selector) - 1)

\* sends to a class: y:=C sel. and y:=C sel:1. for the classes C and the
\* selectors sel below, beside the classes of ClassSendSetups
ClassSendSetups ==
  {<<>>,
   \* class A:Object{m[|]k:[|]}
   ClassText(cls_A, s_Object,
             MethodText(id_m, <<>>, <<>>) \o MethodText(Append(id_k, ":"), <<>>, <<>>)),
   \* class A:Integer{m[:v|]}
   ClassText(cls_A, s_Integer, MethodText(id_m, <<id_v>>, <<>>)),
   \* class A:String{}class B:A{k:[:v:w|]}
   ClassText(cls_A, s_String, <<>>)
     \o ClassText(cls_B, cls_A, MethodText(Append(id_k, ":"), <<id_v, id_w>>, <<>>))}
ClassSendReceivers ==
  {s_Object, s_Integer, s_String, s_Nil, s_True, s_Block, s_Main, cls_A, cls_B}
ClassSendUnary == {m_new, m_asString, m_print, m_not, m_value, m_foo, s_run, id_m, s_nil}
ClassSendKeyword == {m_plus_, m_from_, m_value_, m_and_, m_equalTo_, Append(id_k, ":")}
ClassSendTexts ==
  {UnaryText(c, sel) : c \in ClassSendReceivers, sel \in ClassSendUnary}
  \cup {KeywordText(c, Stem(sel), <<>>, num_1) :
          c \in ClassSendReceivers, sel \in ClassSendKeyword}
ClassSendPrograms ==
  {MainText(StatementText(id_y, send), <<>>) \o setup :
     send \in ClassSendTexts, setup \in ClassSendSetups}

\* block literals inside the expression of a statement of run: as the
\* right-hand side, as the target of a send and as an argument of a send
nb_duplicate == BlockText(<<id_a, id_a>>, <<>>)                       \* [:a:a|]
nb_undefined == BlockText(<<>>, StatementText(id_z, id_q))            \* [|z:=q.]
nb_parameter == BlockText(<<id_a>>, StatementText(id_a, num_1))       \* [:a|a:=1.]
nb_outer == BlockText(<<>>, StatementText(id_z, id_x))                \* [|z:=x.]
nb_valid ==                                                           \* [:a|z:=a.w:=z.]
  BlockText(<<id_a>>, StatementText(id_z, id_a) \o StatementText(id_w, id_z))
NestedBlocks == {nb_duplicate, nb_undefined, nb_parameter, nb_outer, nb_valid}
NestedPlaces(b) ==
  {StatementText(id_y, b),                                  \* y:=[...].
   StatementText(id_y, UnaryText(b, m_value)),              \* y:=[...] value.
   StatementText(id_y, KeywordText(num_1, id_k, <<>>, b))}  \* y:=1 k:[...].
NestedBlockPrograms ==
  {MainText(pre \o stmt, <<>>) :
     pre \in {<<>>, st_number}, stmt \in UNION {NestedPlaces(b) : b \in NestedBlocks}}

\* a method m:[:v|...] with an assignment to its parameter v: after
\* assignments to a local, with right-hand sides that are accepted or are
\* themselves in error, and before a statement in error
ParameterTargets ==
  {StatementText(id_v, num_1),                                        \* v:=1.
   StatementText(id_v, id_v),                                         \* v:=v.
   StatementText(id_v, id_q),                                         \* v:=q.
   StatementText(id_v, UnaryText(s_self, id_q)),                      \* v:=self q.
   StatementText(id_v, KeywordText(KeywordText(s_self, id_a, <<>>, num_1),
                                   id_b, <<>>, num_2))}               \* v:=self a:1 b:2.
ParameterAssignPrograms ==
  {MainText(<<>>, MethodText(Append(id_m, ":"), <<id_v>>, pre \o target \o post)) :
     pre \in Bodies({st_number}, MaxStmts), target \in ParameterTargets,
     post \in {<<>>, StatementText(id_y, id_q)}}

\* run[|x:=1.x:=2. ...]: a second assignment to the local x, followed by
\* reads of x, of a name never assigned, and a third assignment to x
st_number_2 == StatementText(id_x, num_2)                             \* x:=2.
ReassignAccepted == {<<>>, st_variable, StatementText(id_x, id_x), st_number}
ReassignRejected == {StatementText(id_y, id_q), StatementText(id_x, id_y)}
LocalReassignPrograms(Tails) ==
  {MainText(st_number \o st_number_2 \o tail, <<>>) : tail \in Tails}

\* reads of variables in the right-hand sides of the assignments of run and
\* of a method m: with the parameter v; no statement offends against another
\* rule
VariableStatements ==
  {st_number,                                                         \* x:=1.
   StatementText(id_x, id_x),                                         \* x:=x.
   st_variable,                                                       \* y:=x.
   StatementText(id_x, id_y),                                         \* x:=y.
   StatementText(id_y, s_self),                                       \* y:=self.
   StatementText(id_y, UnaryText(id_x, m_foo)),                       \* y:=x foo.
   StatementText(id_z, KeywordText(num_1, id_k, <<>>, id_y))}         \* z:=1 k:y.
ParameterReads ==
  {StatementText(id_y, id_v),                                         \* y:=v.
   StatementText(id_x, KeywordText(id_v, id_k, <<>>, id_w))}          \* x:=v k:w.
VariablePrograms ==
  {MainText(body, <<>>) : body \in Bodies(VariableStatements, MaxStmts)}
  \cup {MainText(<<>>, MethodText(Append(id_m, ":"), <<id_v>>, body)) :
          body \in Bodies(VariableStatements \cup ParameterReads, MaxStmts)}

\* sends to self in run: class Main:P{run[|y:=self ... .] own}, where Main
\* declares one method of its own or none and its parent P is Object or the
\* class A:Object{m[|]m:[:v:w|]m:k:[:v|]}
sel_m_ == Append(id_m, ":")                                           \* m:
sel_m_k_ == sel_m_ \o Append(id_k, ":")                               \* m:k:
SelfSends ==
  {UnaryText(s_self, id_m),                                           \* self m
   KeywordText(s_self, id_m, <<>>, num_1),                            \* self m:1
   KeywordText(KeywordText(s_self, id_m, <<>>, num_1), id_k, <<>>, num_2)}  \* self m:1 k:2
OwnMethods ==
  {<<>>,
   MethodText(id_m, <<>>, <<>>), MethodText(id_m, <<id_v>>, <<>>),
   MethodText(sel_m_, <<>>, <<>>), MethodText(sel_m_, <<id_v>>, <<>>),
   MethodText(sel_m_, <<id_v, id_w>>, <<>>),
   MethodText(sel_m_k_, <<id_v, id_w>>, <<>>), MethodText(sel_m_k_, <<id_v>>, <<>>)}
InheritedMethods ==
  MethodText(id_m, <<>>, <<>>) \o MethodText(sel_m_, <<id_v, id_w>>, <<>>)
  \o MethodText(sel_m_k_, <<id_v>>, <<>>)
SelfSendBody(send, own) == MethodText(s_run, <<>>, StatementText(id_y, send)) \o own
SelfSendPrograms ==
  {ClassText(s_Main, s_Object, SelfSendBody(send, own)) :
     send \in SelfSends, own \in OwnMethods}
  \cup {ClassText(s_Main, cls_A, SelfSendBody(send, own))
          \o ClassText(cls_A, s_Object, InheritedMethods) :
          send \in SelfSends, own \in OwnMethods}

\* setters: class Main:P{run[|<statement>] own}, alone, with the parent
\* class A:Object{m[|z:=self w:1.]} or with the subclass class A:Main{...}
sel_a_b_ == Append(id_a, ":") \o Append(id_b, ":")                    \* a:b:
self_a_1_b_2 ==                                                       \* self a:1 b:2
  KeywordText(KeywordText(s_self, id_a, <<>>, num_1), id_b, <<>>, num_2)
st_setter_2 == StatementText(id_z, self_a_1_b_2)                      \* z:=self a:1 b:2.
st_nested_setter_2 ==                                                 \* y:=[|z:=self a:1 b:2.].
  StatementText(id_y, BlockText(<<>>, st_setter_2))
SetterStatements ==
  {st_number, st_setter, st_setter_2, st_nested_setter, st_nested_setter_2}
SetterOwnMethods == {<<>>, MethodText(sel_a_b_, <<id_v, id_w>>, <<>>)}
SetterOfA ==
  MethodText(id_m, <<>>, StatementText(id_z, KeywordText(s_self, id_w, <<>>, num_1)))
SetterBody(st, own) == MethodText(s_run, <<>>, st) \o own
SetterPrograms ==
  {ClassText(s_Main, s_Object, SetterBody(st, own)) :
     st \in SetterStatements, own \in SetterOwnMethods}
  \cup {ClassText(s_Main, s_Object, SetterBody(st, own))
          \o ClassText(cls_A, s_Main, SetterOfA) :
          st \in SetterStatements, own \in SetterOwnMethods}
  \cup {ClassText(s_Main, cls_A, SetterBody(st, own))
          \o ClassText(cls_A, s_Object, SetterOfA) :
          st \in SetterStatements, own \in SetterOwnMethods}

\* method selectors: class Main:Object{run[|]<selector>[|]}
SelectorTexts ==
  {id_m, sel_m_, sel_m_k_,                                            \* m  m:  m:k:
   <<"a", ":", "b">>, <<"a", ":", ":">>, <<"a", ":", "B", ":">>,      \* a:b  a::  a:B:
   <<"a", ":", "_", "b", ":">>, <<"a", ":", "b", ":", "k">>,          \* a:_b:  a:b:k
   <<"A">>, <<"A", ":">>, <<"_", "a">>, <<"m", " ", ":">>,            \* A  A:  _a  m :
   <<"m", ":", " ", "k", ":">>}                                       \* m: k:
SelectorProgram(selector) ==
  MainText(<<>>, MethodText(selector, <<>>, <<>>))
SelectorPrograms == {SelectorProgram(selector) : selector \in SelectorTexts}

\* expressions: class Main:Object{run[|x:=<base><parts>.]}, a base followed
\* by at most MaxParts message parts
MaxParts == 2
ExpressionBases ==
  {num_1, s_self,                                                     \* 1  self
   <<"(", "1", " ", "k", ":", "2", ")">>,                             \* (1 k:2)
   <<"[", "|", "]">>}                                                 \* [|]
MessageParts ==
  {SP \o id_m,                                                        \* m
   SP \o id_k \o <<":">> \o num_2,                                    \* k:2
   SP \o <<":">> \o num_2,                                            \* :2
   SP \o <<"j", ":", "(", "2", " ", "m", ")">>,                       \* j:(2 m)
   SP \o <<"q", ":", "[", "|", "]">>}                                 \* q:[|]
RECURSIVE MessageTails(_)
MessageTails(n) ==
  IF n = 0 THEN {<<>>}
  ELSE {<<>>} \cup {tail \o part : tail \in MessageTails(n - 1), part \in MessageParts}
MessageProgram(base, tail) == MainText(StatementText(id_x, base \o tail), <<>>)
MessagePrograms ==
  {MessageProgram(base, tail) :
     base \in ExpressionBases, tail \in MessageTails(MaxParts)}

\* keyword messages: class Main:Object{run[|x:=t k:a1 q:a2 ... .]} with at
\* most MaxParts keyword parts, and the same followed by the identifier m
tx_paren_keyword == <<"(", "1", " ", "k", ":", "2", ")">>            \* (1 k:2)
tx_paren_unary == <<"(", "2", " ", "m", ")">>                         \* (2 m)
tx_block == <<"[", "|", "]">>                                         \* [|]
tx_string == <<"'", "s", "'">>                                        \* 's'
KeywordTargets == {num_1, s_self, tx_paren_keyword, tx_block}
KeywordArguments == {num_2, id_y, tx_paren_unary, tx_block, tx_string}
KeywordArgumentLists == UNION {[1..n -> KeywordArguments] : n \in 1..MaxParts}
KeywordName(i) == IF i % 2 = 1 THEN id_k ELSE id_q
RECURSIVE KeywordTail(_, _)
KeywordTail(arguments, n) ==
  IF n = 0 THEN <<>>
  ELSE KeywordTail(arguments, n - 1) \o SP \o KeywordName(n) \o <<":">> \o arguments[n]
KeywordProgram(target, arguments, unary) ==
  MainText(StatementText(id_x, target \o KeywordTail(arguments, Len(arguments))
                               \o (IF unary THEN SP \o id_m ELSE <<>>)), <<>>)
KeywordPrograms ==
  {KeywordProgram(target, arguments, unary) :
     target \in KeywordTargets, arguments \in KeywordArgumentLists, unary \in BOOLEAN}

AnalysisInputs ==
  KeywordPrograms \cup
  ClassSendPrograms \cup NestedBlockPrograms \cup ParameterAssignPrograms
  \cup LocalReassignPrograms(ReassignAccepted \cup ReassignRejected)
  \cup VariablePrograms \cup SelfSendPrograms \cup SetterPrograms
  \cup SelectorPrograms \cup MessagePrograms

InitAnalysis ==
  \/ \E text \in AnalysisInputs : InitWith(<<>>, text)
  \/ \E args \in OtherArguments : InitWith(args, <<>>)

SpecAnalysis == InitAnalysis /\ [][Next]_vars

(***************************************************************************)
(* Method lookup, one activation of lookup_method or lookup_builtin_method *)
(* per step.  The programs are class Main:Object{run[|x:=R s.]} followed   *)
(* by classes named A, B, Integer and Object, each present or not, with    *)
(* parents that make chains, cycles and user-defined classes that have the *)
(* name of a built-in class.                                               *)
(***************************************************************************)
LookupReceivers == {cls_A, s_Integer, s_Object}
LookupSelectors == {m_foo, id_m, m_new}
LookupClassA ==
  {<<>>, ClassText(cls_A, s_Object, <<>>), ClassText(cls_A, cls_B, <<>>),
   ClassText(cls_A, s_Integer, <<>>)}
LookupClassB ==
  {<<>>, ClassText(cls_B, s_Object, MethodText(id_m, <<>>, <<>>)),
   ClassText(cls_B, cls_A, MethodText(id_m, <<>>, <<>>))}
LookupClassInteger ==
  {<<>>, ClassText(s_Integer, s_Object, <<>>), ClassText(s_Integer, cls_A, <<>>)}
LookupClassObject == {<<>>, ClassText(s_Object, s_Integer, <<>>)}
LookupProgram(receiver, selector, classes) ==
  MainText(StatementText(id_x, UnaryText(receiver, selector)), <<>>) \o classes
LookupPrograms ==
  {LookupProgram(receiver, selector, a \o b \o i \o o) :
     receiver \in LookupReceivers, selector \in LookupSelectors,
     a \in LookupClassA, b \in LookupClassB,
     i \in LookupClassInteger, o \in LookupClassObject}

InitLookup == \E text \in LookupPrograms : InitWith(<<>>, text)

LookupNext ==
  \/ main_args
  \/ main_read
  \/ tokenize_step
  \/ tokenize_return
  \/ parser_parse
  \/ analyze_duplicate_classes
  \/ analyze_duplicate_methods
  \/ analyze_main
  \/ analyze_parents
  \/ analyze_cycle
  \/ analyze_harvest
  \/ analyze_expr_lookup
  \/ lookup_method_step
  \/ lookup_builtin_method_step
  \/ analyze_method_looked_up
  \/ main_emit

\* a call that is under way is not suspended: its next activation runs
SpecLookup ==
  InitLookup /\ [][LookupNext]_vars
  /\ WF_vars(lookup_method_step \/ lookup_builtin_method_step)

(***************************************************************************)
(* Properties of the runs.                                                 *)
(***************************************************************************)
Pipeline == <<"lex", "parse", "semantic", "xml">>
IsPrefix(s, t) == Len(s) <= Len(t) /\ s = SubSeq(t, 1, Len(s))

\* the run has ended and had read its input
Ran == pc = "exit" /\ phases # <<>>
\* the parser returned: ast is the AST of the input
Parsed == \E i \in 1..Len(phases) : phases[i] = "semantic"

\* C1: in a run with zero arguments the phases are entered at most once each
\* and in the order lex, parse, semantic analysis, XML emission; standard
\* output holds something only after all four were entered; a run that ends
\* with exit code 0 entered all four and printed once; a run that ends with a
\* non-zero exit code leaves standard output empty.
C1_StrictPipeline ==
  argv = <<>> =>
    /\ IsPrefix(phases, Pipeline)
    /\ (stdout # <<>> => phases = Pipeline)
    /\ (pc = "exit" /\ exit_code = EXIT_OK => phases = Pipeline /\ Len(stdout) = 1)
    /\ (pc = "exit" /\ exit_code # EXIT_OK => stdout = <<>>)

\* a run that failed in the semantic analysis, with nothing printed
C1_Witness ==
  /\ argv = <<>>
  /\ pc = "exit"
  /\ exit_code = ERR_UNDEFINED_VAR
  /\ phases = <<"lex", "parse", "semantic">>
  /\ stdout = <<>>

ExitCodeTable ==
  {EXIT_OK, ERR_MISSING_PARAM, ERR_OPEN_INPUT, ERR_OPEN_OUTPUT, ERR_LEXICAL,
   ERR_SYNTACTIC, ERR_MISSING_MAIN, ERR_UNDEFINED_VAR, ERR_ARITY,
   ERR_VAR_COLLISION, ERR_SEMANTIC_OTHER, ERR_INTERNAL}

\* C2: every run ends with an exit code of the exit-code table.
C2_ExitCodeInTable == pc = "exit" => exit_code \in ExitCodeTable

\* class Main:Object{run[|y:=[|] a:1.]} ends with an uncaught exception
C2_Witness ==
  /\ pc = "exit"
  /\ stdin = MainText(st_block_keyword, <<>>)
  /\ phases = <<"lex", "parse">>
  /\ exit_code = EXIT_UNCAUGHT

\* the classes named Main, and the methods named run of a class
MainClasses(program) ==
  {i \in 1..Len(program.classes) : program.classes[i].name = s_Main}
RunMethods(cls) == {j \in 1..Len(cls.methods) : cls.methods[j].selector = s_run}

\* no two classes of a name, no two methods of a selector in a class
NoDuplicates(program) ==
  /\ \A i, k \in 1..Len(program.classes) :
       i # k => program.classes[i].name # program.classes[k].name
  /\ \A i \in 1..Len(program.classes) :
       \A j, k \in 1..Len(program.classes[i].methods) :
         j # k => program.classes[i].methods[j].selector
                  # program.classes[i].methods[k].selector

\* there is no class Main, or Main has no method run
NoMainRun(program) ==
  \A i \in MainClasses(program) : RunMethods(program.classes[i]) = {}

\* Main has a method run whose block has parameters
MainRunHasParameters(program) ==
  \E i \in MainClasses(program) : \E j \in RunMethods(program.classes[i]) :
    Len(program.classes[i].methods[j].block.parameters) >= 1

\* C3: when a program that parsed and has no duplicate class or method ends
\* its run, the exit code is 31 if it has no class Main or Main has no method
\* run, and 33 if Main has a method run with one or more parameters.
C3_MainDiscipline ==
  (pc = "exit" /\ Parsed /\ NoDuplicates(ast)) =>
    /\ (NoMainRun(ast) => exit_code = ERR_MISSING_MAIN)
    /\ (MainRunHasParameters(ast) => exit_code = ERR_ARITY)

\* a program whose second class is Main with run[:v|] has exited 33
C3_Witness ==
  /\ pc = "exit"
  /\ Parsed
  /\ NoDuplicates(ast)
  /\ Len(ast.classes) = 2
  /\ ast.classes[2].name = s_Main
  /\ MainRunHasParameters(ast)
  /\ exit_code = ERR_ARITY

\* whether the class named b is reached from the class named a in at least
\* one and at most k steps of the parent relation of the program's classes
RECURSIVE Reaches(_, _, _, _)
Reaches(program, a, b, k) ==
  /\ k > 0
  /\ \E i \in 1..Len(program.classes) :
       /\ program.classes[i].name = a
       /\ \/ program.classes[i].parent = b
          \/ Reaches(program, program.classes[i].parent, b, k - 1)

\* some class is its own ancestor
HasCycle(program) ==
  \E i \in 1..Len(program.classes) :
    Reaches(program, program.classes[i].name, program.classes[i].name,
            Len(program.classes))

\* every parent is a class of the program or a built-in class
ParentsDefined(program) ==
  \A i \in 1..Len(program.classes) :
    \/ program.classes[i].parent \in builtin_classes
    \/ \E k \in 1..Len(program.classes) :
         program.classes[k].name = program.classes[i].parent

\* C4 as stated: every program that parsed and whose classes form an
\* inheritance cycle ends its run with exit code 35.
C4_CycleExits35 ==
  (pc = "exit" /\ Parsed /\ HasCycle(ast)) => exit_code = ERR_SEMANTIC_OTHER

\* C4: a program that parsed and whose classes form an inheritance cycle ends
\* its run with exit code 35 when it has a duplicate class or method, and
\* otherwise with 31 when Main or Main.run is missing, with 33 when Main.run
\* has parameters, with 32 when some parent is undefined, and with 35 when
\* none of these holds.
C4_CycleExits35AfterEarlierChecks ==
  (pc = "exit" /\ Parsed /\ HasCycle(ast)) =>
    exit_code = IF ~NoDuplicates(ast) THEN ERR_SEMANTIC_OTHER
                ELSE IF NoMainRun(ast) THEN ERR_MISSING_MAIN
                ELSE IF MainRunHasParameters(ast) THEN ERR_ARITY
                ELSE IF ~ParentsDefined(ast) THEN ERR_UNDEFINED_VAR
                ELSE ERR_SEMANTIC_OTHER

\* class Main : Object { run [|]} class A : B {} class B : A {} has exited 35
C4_Witness ==
  /\ pc = "exit"
  /\ stdin = ScenarioF
  /\ HasCycle(ast)
  /\ NoDuplicates(ast) /\ ~NoMainRun(ast) /\ ParentsDefined(ast)
  /\ exit_code = ERR_SEMANTIC_OTHER

\* whether a send to self with selector sel and n arguments occurs in expr,
\* the blocks nested in expr included
RECURSIVE HasSelfSend(_, _, _)
HasSelfSend(expr, sel, n) ==
  IF expr.kind = "Send"
  THEN \/ /\ expr.target.kind = "Var"
          /\ expr.target.name = s_self
          /\ expr.selector = sel
          /\ Len(expr.args) = n
       \/ HasSelfSend(expr.target, sel, n)
       \/ \E i \in 1..Len(expr.args) : HasSelfSend(expr.args[i], sel, n)
  ELSE IF expr.kind = "Block"
  THEN \E i \in 1..Len(expr.assigns) : HasSelfSend(expr.assigns[i].expr, sel, n)
  ELSE FALSE

ClassHasSelfSend(cls, sel, n) ==
  \E j \in 1..Len(cls.methods) : HasSelfSend(cls.methods[j].block, sel, n)

\* C5: for a program that offends against no other rule and whose class Main
\* defines no method x and contains the getter self x in some method: the run
\* ends with exit code 0 when a setter self x: e occurs in some method of
\* Main, and with exit code 32 when none does.
C5_DynamicAttributeLaw ==
  (Ran /\ Parsed /\ stdin \in AttributePrograms
       /\ ClassHasSelfSend(ast.classes[1], id_x, 0)) =>
    exit_code = IF ClassHasSelfSend(ast.classes[1], Append(id_x, ":"), 1)
                THEN EXIT_OK
                ELSE ERR_UNDEFINED_VAR

\* class Main:Object{run[|y:=[|z:=self x.].]} has exited 0
C5_Witness ==
  /\ Ran
  /\ stdin = MainText(st_nested_getter, <<>>)
  /\ ClassHasSelfSend(ast.classes[1], id_x, 0)
  /\ ~ClassHasSelfSend(ast.classes[1], Append(id_x, ":"), 1)
  /\ exit_code = EXIT_OK

\* C6 as stated: class Main : Object { run [| self x: 1. y := self x. ] } is
\* accepted with exit code 0.
C6_ScenarioDAccepted == (Ran /\ stdin = ScenarioD) => exit_code = EXIT_OK

\* C6: class Main : Object { run [| self x: 1. y := self x. ] } ends with exit
\* code 22; with the setter as the right-hand side of an assignment,
\* class Main : Object { run [| z := self x: 1. y := self x. ] }, the run ends
\* with exit code 0, x is an attribute of Main and y is assigned by the second
\* statement.
C6_SetterInAssignment ==
  /\ (Ran /\ stdin = ScenarioD) => exit_code = ERR_SYNTACTIC
  /\ (Ran /\ stdin = ScenarioDAssigned) =>
       /\ exit_code = EXIT_OK
       /\ id_x \in sem.dynamic_attrs[s_Main]
       /\ Len(ast.classes[1].methods[1].block.assigns) = 2
       /\ ast.classes[1].methods[1].block.assigns[2].var.name = id_y

C6_Witness ==
  /\ Ran
  /\ stdin = ScenarioDAssigned
  /\ exit_code = EXIT_OK
  /\ sem.dynamic_attrs[s_Main] = {id_x}

\* C7 as stated: a reserved identifier used as the left-hand side of an
\* assignment, as a block parameter or as a colon-free method selector, with
\* no lexical or syntactic error before it in the source, makes the run end
\* with exit code 22.
C7_ReservedExits22 ==
  (Ran /\ stdin \in ReservedPrograms(ValidBefore \cup BlockKeywordBefore, AnyAfter))
    => exit_code = ERR_SYNTACTIC

\* C7: such a use of a reserved identifier makes the run end with exit code
\* 22 when the whole source is lexically valid and the parser reaches the
\* use; with 21 when a lexical error stands anywhere in the source, also
\* after the use; and with an uncaught exception when a statement before the
\* use sends a keyword message to a block literal.
C7_ReservedExits22WhenReached ==
  Ran =>
    /\ stdin \in ReservedPrograms(ValidBefore, NothingAfter)
         => exit_code = ERR_SYNTACTIC
    /\ stdin \in ReservedPrograms(ValidBefore \cup BlockKeywordBefore, LexicalErrorAfter)
         => exit_code = ERR_LEXICAL
    /\ stdin \in ReservedPrograms(BlockKeywordBefore, NothingAfter)
         => exit_code = EXIT_UNCAUGHT

\* class Main:Object{run[|x:=1.true:=1.]} has exited 22
C7_Witness ==
  /\ Ran
  /\ stdin = ProbeText(st_number, [stmt |-> ReservedLhsText(s_true), method |-> <<>>], <<>>)
  /\ exit_code = ERR_SYNTACTIC

\* C8 as stated: a keyword part k: of a method declaration or of a message
\* send written with a gap between k and the colon, the source before it
\* being lexically and syntactically valid, makes the run end with exit code
\* 22.
C8_GapExits22 ==
  (Ran /\ stdin \in GapPrograms(ValidBefore \cup BlockKeywordBefore, AnyAfter))
    => exit_code = ERR_SYNTACTIC

\* C8: such a gap makes the run end with exit code 22 when the whole source
\* is lexically valid and the parser reaches the keyword part; with 21 when a
\* lexical error stands anywhere in the source, also after the gap; and with
\* an uncaught exception when a statement before the gap sends a keyword
\* message to a block literal.
C8_GapExits22WhenReached ==
  Ran =>
    /\ stdin \in GapPrograms(ValidBefore, NothingAfter)
         => exit_code = ERR_SYNTACTIC
    /\ stdin \in GapPrograms(ValidBefore \cup BlockKeywordBefore, LexicalErrorAfter)
         => exit_code = ERR_LEXICAL
    /\ stdin \in GapPrograms(BlockKeywordBefore, NothingAfter)
         => exit_code = EXIT_UNCAUGHT

\* class Main : Object { run [| x := 1 plus : 2. ] } has exited 22
C8_Witness == Ran /\ stdin = ScenarioG /\ exit_code = ERR_SYNTACTIC

\* whether every Send of expr, the blocks nested in expr included, has as
\* many arguments as its selector has colons
RECURSIVE SelectorArity(_)
SelectorArity(expr) ==
  IF expr.kind = "Send"
  THEN /\ Len(expr.args) = Count(expr.selector, ":")
       /\ SelectorArity(expr.target)
       /\ \A i \in 1..Len(expr.args) : SelectorArity(expr.args[i])
  ELSE IF expr.kind = "Block"
  THEN \A i \in 1..Len(expr.assigns) : SelectorArity(expr.assigns[i].expr)
  ELSE TRUE

\* C9: in every AST the parser returns, every Send has as many argument
\* expressions as its selector has colons.
C9_SendArity ==
  \A i \in 1..Len(ast.classes) : \A j \in 1..Len(ast.classes[i].methods) :
    SelectorArity(ast.classes[i].methods[j].block)

\* the parser has returned the AST of class Main:Object{run[|z:=self a:1 b:2.]}
C9_Witness ==
  /\ pc = "sem_classes"
  /\ stdin = MainText(st_two_keywords, <<>>)
  /\ LET e == ast.classes[1].methods[1].block.assigns[1].expr
     IN  /\ e.kind = "Send"
         /\ e.selector = <<"a", ":", "b", ":">>
         /\ Len(e.args) = 2

\* C10: in every program whose run ends with exit code 0, every method's
\* selector has as many colons as the method's block has parameters.
C10_MethodArity ==
  (pc = "exit" /\ exit_code = EXIT_OK /\ phases = Pipeline) =>
    \A i \in 1..Len(ast.classes) : \A j \in 1..Len(ast.classes[i].methods) :
      Count(ast.classes[i].methods[j].selector, ":")
        = Len(ast.classes[i].methods[j].block.parameters)

\* class Main:Object{run[|]m:[|]} has exited 0
C10_Witness ==
  /\ pc = "exit"
  /\ stdin = MainText(<<>>, MethodText(Append(id_m, ":"), <<>>, <<>>))
  /\ exit_code = EXIT_OK
  /\ ast.classes[1].methods[2].selector = <<"m", ":">>
  /\ ast.classes[1].methods[2].block.parameters = <<>>


\* the value fields of the tokens, concatenated in order
RECURSIVE ConcatValues(_)
ConcatValues(toks) ==
  IF toks = <<>> THEN <<>> ELSE Head(toks).value \o ConcatValues(Tail(toks))

NoWhitespace(text) == \A i \in 1..Len(text) : text[i] \notin Space
TokensOfType(toks, type_) == {i \in 1..Len(toks) : toks[i].type = type_}

\* tokenize returned the tokens of a source text with no whitespace and no
\* comment
LexedPlainSource ==
  /\ pc = "parse"
  /\ NoWhitespace(code)
  /\ TokensOfType(tokens, "COMMENT") = {}

\* the offset in the text where the lexeme of token i ends
LexemeEnd(text, toks, i) == IF i < Len(toks) THEN toks[i + 1].pos ELSE Len(text)

\* C11 as stated: for every source text with no comment and no whitespace
\* that the lexer accepts, the value fields of the tokens concatenated in
\* order are the source text, string literals included.
C11_RoundTrip == LexedPlainSource => ConcatValues(tokens) = code

\* C11: for every source text with no comment and no whitespace that the
\* lexer accepts, the lexemes of the tokens cover the text without gap; the
\* value of every token other than a string literal is its lexeme, and the
\* value of a string literal is shorter than its lexeme by the two quotes or
\* more; so the concatenated values are the source text exactly when the
\* text has no string literal, and are shorter than it by at least two
\* characters per literal otherwise.
C11_RoundTripDecoded ==
  LexedPlainSource =>
    /\ (tokens # <<>> => tokens[1].pos = 0)
    /\ (tokens = <<>> => code = <<>>)
    /\ \A i \in 1..Len(tokens) :
         IF tokens[i].type = "STRING"
         THEN /\ code[tokens[i].pos + 1] = "'"
              /\ code[LexemeEnd(code, tokens, i)] = "'"
              /\ Len(tokens[i].value)
                   <= LexemeEnd(code, tokens, i) - tokens[i].pos - 2
         ELSE /\ tokens[i].value
                   = SubSeq(code, tokens[i].pos + 1, LexemeEnd(code, tokens, i))
    /\ (ConcatValues(tokens) = code <=> TokensOfType(tokens, "STRING") = {})
    /\ Len(ConcatValues(tokens))
         <= Len(code) - 2 * Cardinality(TokensOfType(tokens, "STRING"))

\* the text 'n' was tokenized to one STRING token of value n
C11_Witness ==
  /\ LexedPlainSource
  /\ code = <<"'", "n", "'">>
  /\ tokens = <<Token("STRING", <<"n">>, 0)>>
  /\ ConcatValues(tokens) # code

\* the positions of the tokens increase strictly along the sequence
TokenPositionsIncrease ==
  \A i \in 1..(Len(tokens) - 1) : tokens[i].pos < tokens[i + 1].pos

\* an iteration of the loop of tokenize that does not exit moves the scan
\* offset forward by one character or more
ScanAdvances == (tokenize_step /\ pc' = "lex") => pos' >= pos + 1

\* C12: the positions of the tokens increase strictly from each token to the
\* next in every state of the lexer, every iteration of the loop of tokenize
\* advances the scan offset by at least one character, and on every text the
\* loop ends: tokenize returns or exits.
C12_LexerProgress ==
  /\ []TokenPositionsIncrease
  /\ [][ScanAdvances]_vars
  /\ <>(pc \in {"parse", "exit"})

\* tokenize returned three tokens of a text with whitespace between them
C12_Witness ==
  /\ pc = "parse"
  /\ code = <<"n", "\n", ":", "1">>
  /\ pos = Len(code)
  /\ Len(tokens) = 3
  /\ tokens[2].pos = 2
  /\ tokens[3].pos = 3


\* the class of the program with this name; the names of its classes
ClassNamed(program, name) ==
  program.classes[CHOOSE i \in 1..Len(program.classes) : program.classes[i].name = name]
UserClasses(program) == {program.classes[i].name : i \in 1..Len(program.classes)}
Declares(cls, selector) ==
  \E j \in 1..Len(cls.methods) : cls.methods[j].selector = selector

\* whether the class named c understands the selector: a class of the program
\* by a method it declares or by what its parent understands, within k steps
\* of the parent chain; a built-in class by its row of the built-in method
\* table or by the row of Object
RECURSIVE Understands(_, _, _, _)
Understands(program, c, selector, k) ==
  IF c \in UserClasses(program)
  THEN \/ Declares(ClassNamed(program, c), selector)
       \/ k > 0 /\ Understands(program, ClassNamed(program, c).parent, selector, k - 1)
  ELSE \/ selector \in builtin_methods(c)
       \/ c \in builtin_classes /\ selector \in builtin_methods(s_Object)

\* the right-hand side of the first statement of the first method (run)
FirstExpr == ast.classes[1].methods[1].block.assigns[1].expr

\* the run has ended on a program whose first statement sends a message with
\* number arguments to a class that exists, the selector being no reserved
\* word (a send with a reserved word as selector is rejected with exit code
\* 22 before its target is looked at)
ClassSendAnalyzed ==
  /\ Ran
  /\ Parsed
  /\ stdin \in ClassSendPrograms
  /\ FirstExpr.target.value \in UserClasses(ast) \cup builtin_classes
  /\ FirstExpr.selector \notin ReservedWords

RECURSIVE BlocksIn(_)
BlocksIn(expr) ==
  IF expr.kind = "Block" THEN {expr}
  ELSE IF expr.kind = "Send"
  THEN BlocksIn(expr.target) \cup UNION {BlocksIn(expr.args[i]) : i \in 1..Len(expr.args)}
  ELSE {}

\* the exit code of the block rules applied to a block literal of class Main
\* under an environment of its own parameters and self
BlockRules(b) == analyze_block(b, ast.classes[1], class_map_of(ast), {}).err

\* C14: when a block literal in a statement of run offends against the block
\* rules under an environment of its own parameters and self (a parameter
\* name twice: 35; a variable that is no parameter, not self and not assigned
\* earlier in the block literal: 32; an assignment to a parameter: 34), the
\* run ends with that exit code.
C14_NestedBlocksAnalyzed ==
  (Ran /\ Parsed /\ stdin \in NestedBlockPrograms) =>
    \A i \in 1..Len(ast.classes[1].methods[1].block.assigns) :
      \A b \in BlocksIn(ast.classes[1].methods[1].block.assigns[i].expr) :
        BlockRules(b) # EXIT_OK => exit_code = BlockRules(b)

\* class Main:Object{run[|y:=[:a:a|].]} has exited 0
C14_Witness ==
  /\ Ran
  /\ stdin = MainText(StatementText(id_y, nb_duplicate), <<>>)
  /\ FirstExpr.kind = "Block"
  /\ BlockRules(FirstExpr) = ERR_SEMANTIC_OTHER
  /\ exit_code = EXIT_OK

\* C16: a method block with an assignment to one of its parameters, the
\* assignments before it being accepted, makes the run end with exit code 34,
\* whatever its right-hand side is (accepted, or in error with 32 or 33) and
\* whatever follows it; a second and a third assignment to a local are
\* accepted, and after them the names that can be read are those that could
\* be read before: the run ends with exit code 0 when only the local is read
\* and with 32 when another name is.
C16_ParameterAssignment ==
  Ran =>
    /\ stdin \in ParameterAssignPrograms => exit_code = ERR_VAR_COLLISION
    /\ stdin \in LocalReassignPrograms(ReassignAccepted) => exit_code = EXIT_OK
    /\ stdin \in LocalReassignPrograms(ReassignRejected) => exit_code = ERR_UNDEFINED_VAR

\* class Main:Object{run[|]m:[:v|x:=1.v:=q.]} has exited 34
C16_Witness ==
  /\ Ran
  /\ stdin = MainText(<<>>, MethodText(Append(id_m, ":"), <<id_v>>,
                                       st_number \o StatementText(id_v, id_q)))
  /\ ast.classes[1].methods[2].block.assigns[2].var.name
       = ast.classes[1].methods[2].block.parameters[1].name
  /\ exit_code = ERR_VAR_COLLISION


\* the exit code of the block rules applied to the n-th method of the
\* program in source order, the program having no send to self
MethodRules(program, n) ==
  LET at == method_list(program)[n]
      cls == program.classes[at.cls]
  IN  analyze_block(cls.methods[at.method].block, cls, class_map_of(program), {}).err

\* the first method in source order that the block rules reject, 0 if none
FirstRejected(program) ==
  LET bad == {n \in 1..Len(method_list(program)) : MethodRules(program, n) # EXIT_OK}
  IN  IF bad = {} THEN 0 ELSE CHOOSE n \in bad : \A k \in bad : n <= k

\* the first check that fails in the order duplicate class or method, Main
\* presence, parent resolution, inheritance cycle, block analysis
FailingCheck(program) ==
  IF ~NoDuplicates(program) THEN "duplicates"
  ELSE IF MainRunHasParameters(program) \/ NoMainRun(program) THEN "main"
  ELSE IF ~ParentsDefined(program) THEN "parents"
  ELSE IF HasCycle(program) THEN "cycle"
  ELSE IF FirstRejected(program) # 0 THEN "blocks"
  ELSE "none"

\* C15: a program that parsed ends its run with the exit code of the first
\* check that fails in the order duplicate class (35), duplicate method (35),
\* Main presence (33 or 31), parent resolution (32), inheritance cycle (35),
\* block analysis of the methods in source order, and with 0 when none
\* fails; no check after the failing one has run: the class map is not set
\* when a duplicate or the Main check fails, no attribute is harvested when
\* the parent or the cycle check fails, and the methods after the first
\* rejected one are not analyzed.
C15_CheckOrder ==
  (pc = "exit" /\ Parsed) =>
    LET check == FailingCheck(ast)
    IN  /\ exit_code =
             CASE check = "duplicates" -> ERR_SEMANTIC_OTHER
               [] check = "main" ->
                    IF MainRunHasParameters(ast) THEN ERR_ARITY ELSE ERR_MISSING_MAIN
               [] check = "parents" -> ERR_UNDEFINED_VAR
               [] check = "cycle" -> ERR_SEMANTIC_OTHER
               [] check = "blocks" -> MethodRules(ast, FirstRejected(ast))
               [] check = "none" -> EXIT_OK
        /\ check \in {"duplicates", "main"} => sem = EmptySem
        /\ check \in {"parents", "cycle"} =>
             sem.class_map # <<>> /\ sem.dynamic_attrs = <<>> /\ sem.next = 0
        /\ check = "blocks" => sem.next = FirstRejected(ast)
        /\ check # "none" => stdout = <<>>

\* class Main:Main{run[|]}class A:B{} has an inheritance cycle and an
\* undefined parent and has exited 32 with no attribute harvested
C15_Witness ==
  /\ pc = "exit"
  /\ stdin = ClassText(s_Main, s_Main, RunText) \o ClassText(cls_A, cls_B, <<>>)
  /\ HasCycle(ast)
  /\ ~ParentsDefined(ast)
  /\ exit_code = ERR_UNDEFINED_VAR
  /\ sem.dynamic_attrs = <<>>


\* the names of the variables read in an expression, block literals left out
RECURSIVE Reads(_)
Reads(expr) ==
  IF expr.kind = "Var" THEN {expr.name}
  ELSE IF expr.kind = "Send"
  THEN Reads(expr.target) \cup UNION {Reads(expr.args[i]) : i \in 1..Len(expr.args)}
  ELSE {}

\* the names that may be read in the right-hand side of assignment i of the
\* block: self, the parameters and the targets of the assignments before i
Readable(block, i) ==
  {s_self} \cup {block.parameters[k].name : k \in 1..Len(block.parameters)}
  \cup {block.assigns[j].var.name : j \in 1..(i - 1)}

\* some assignment of the block reads a name that may not be read there
ReadsUnassigned(block) ==
  \E i \in 1..Len(block.assigns) :
    \E n \in Reads(block.assigns[i].expr) : n \notin Readable(block, i)

\* C17: a program that offends against no other rule ends its run with exit
\* code 32 when the right-hand side of some assignment i of a method block
\* reads, outside of block literals, a variable that is not self, not a
\* parameter of the block and not the target of an assignment j < i of the
\* block (so x:=x. as the first assignment to x is rejected), and with exit
\* code 0 when no assignment does.
C17_ReadAfterAssignment ==
  (Ran /\ Parsed /\ stdin \in VariablePrograms) =>
    exit_code =
      IF \E j \in 1..Len(ast.classes[1].methods) :
           ReadsUnassigned(ast.classes[1].methods[j].block)
      THEN ERR_UNDEFINED_VAR
      ELSE EXIT_OK

\* class Main:Object{run[|x:=x.]} has exited 32
C17_Witness ==
  /\ Ran
  /\ stdin = MainText(StatementText(id_x, id_x), <<>>)
  /\ FirstExpr = Var(id_x, 26)
  /\ ast.classes[1].methods[1].block.assigns[1].var.name = id_x
  /\ exit_code = ERR_UNDEFINED_VAR


\* the parameter counts of the methods of the class with this selector
ParameterCounts(cls, selector) ==
  {Len(cls.methods[j].block.parameters) :
     j \in {k \in 1..Len(cls.methods) : cls.methods[k].selector = selector}}

\* C18: for a send to self in run of Main: when Main itself declares a
\* method with the selector of the send, the run ends with exit code 0 if the
\* send has as many arguments as the block of that method has parameters and
\* with 33 if not; when Main declares none, a method of that selector in
\* the parent of Main changes nothing: a selector with a colon is a setter
\* (exit code 0 with one argument, the attribute being registered for Main,
\* and 33 with more) and a selector without colon is a getter of an attribute
\* that was never set (exit code 32).
C18_SelfSendArity ==
  (Ran /\ Parsed /\ stdin \in SelfSendPrograms) =>
    LET main == ast.classes[1]
        send == FirstExpr
    IN  IF Declares(main, send.selector)
        THEN exit_code = IF Len(send.args) \in ParameterCounts(main, send.selector)
                         THEN EXIT_OK
                         ELSE ERR_ARITY
        ELSE IF Count(send.selector, ":") = 0 THEN exit_code = ERR_UNDEFINED_VAR
        ELSE IF Len(send.args) # 1 THEN exit_code = ERR_ARITY
        ELSE /\ exit_code = EXIT_OK
             /\ Stem(send.selector) \in sem.dynamic_attrs[s_Main]

\* class Main:A{run[|y:=self m.]}class A:Object{m[|]m:[:v:w|]m:k:[:v|]} has
\* exited 32: the method m of A is not consulted
C18_Witness ==
  /\ Ran
  /\ stdin \in SelfSendPrograms
  /\ Len(ast.classes) = 2
  /\ ast.classes[1].parent = cls_A
  /\ Len(ast.classes[1].methods) = 1
  /\ FirstExpr.selector = id_m
  /\ Declares(ast.classes[2], id_m)
  /\ exit_code = ERR_UNDEFINED_VAR


\* the selectors of the sends to self in an expression, nested block
\* literals included
RECURSIVE SelfSelectors(_)
SelfSelectors(expr) ==
  IF expr.kind = "Send"
  THEN (IF expr.target.kind = "Var" /\ expr.target.name = s_self
        THEN {expr.selector} ELSE {})
       \cup SelfSelectors(expr.target)
       \cup UNION {SelfSelectors(expr.args[i]) : i \in 1..Len(expr.args)}
  ELSE IF expr.kind = "Block"
  THEN UNION {SelfSelectors(expr.assigns[i].expr) : i \in 1..Len(expr.assigns)}
  ELSE {}

\* the names X of the sends self X: with exactly one colon in the methods of
\* the class itself
SingleSetters(cls) ==
  {Stem(selector) :
     selector \in {t \in UNION {SelfSelectors(cls.methods[j].block) :
                                  j \in 1..Len(cls.methods)} :
                     Count(t, ":") = 1 /\ endswith(t, ":")}}

\* the harvest of the dynamic attributes is over
Harvested == sem.next >= 1

\* C19: at every point after the harvest of the dynamic attributes, the set
\* of dynamic attributes of each class of the program holds exactly the
\* names X of the sends self X: with exactly one colon in the methods of the
\* class itself; a send with several keywords registers nothing, and the
\* setters of a parent or of a subclass register nothing for the class.
C19_DynamicAttributes ==
  Harvested =>
    \A i \in 1..Len(ast.classes) :
      sem.dynamic_attrs[ast.classes[i].name] = SingleSetters(ast.classes[i])

\* class Main:Object{run[|y:=[|z:=self a:1 b:2.].]} has exited 0 with the
\* attribute a:b registered for Main
C19_Witness ==
  /\ Ran
  /\ stdin = ClassText(s_Main, s_Object,
               SetterBody(st_nested_setter_2, <<>>))
  /\ exit_code = EXIT_OK
  /\ Harvested
  /\ SingleSetters(ast.classes[1]) = {}
  /\ sem.dynamic_attrs[s_Main] = {Stem(sel_a_b_)}


\* a piece of a selector: a non-empty name that starts with a lowercase
\* letter, made of letters, digits and underscores
SelectorName(name) ==
  /\ Len(name) > 0
  /\ islower(name[1])
  /\ \A i \in 1..Len(name) : name[i] \notin {":", " "}

\* a single name without colon, or one or more pieces name: in a row
WellFormedSelector(selector) ==
  \/ SelectorName(selector)
  \/ /\ endswith(selector, ":")
     /\ \A i \in 1..Len(selector) :
          (i = 1 \/ selector[i - 1] = ":") =>
            \E j \in i..(Len(selector) - 1) :
              /\ SelectorName(SubSeq(selector, i, j))
              /\ selector[j + 1] = ":"

\* C20: a method declaration is accepted only if its selector is a single
\* name without colon that starts with a lowercase letter, or one or more
\* pieces name: in a row, every name non-empty and starting with a lowercase
\* letter, the selector ending with a colon; with any other selector text
\* before the block (a:b, a::, a:B:) the run ends with exit code 22.
C20_SelectorShape ==
  Ran =>
    \A selector \in SelectorTexts :
      (stdin = SelectorProgram(selector) /\ ~WellFormedSelector(selector)) =>
        exit_code = ERR_SYNTACTIC

\* class Main:Object{run[|]a:b[|]} has exited 0 with a method of selector a:b
C20_Witness ==
  /\ Ran
  /\ stdin = SelectorProgram(<<"a", ":", "b">>)
  /\ ~WellFormedSelector(<<"a", ":", "b">>)
  /\ Len(ast.classes[1].methods) = 2
  /\ ast.classes[1].methods[2].selector = <<"a", ":", "b">>
  /\ exit_code = EXIT_OK


\* the parser has returned a syntax tree
TreeBuilt == ast # EmptyProgram

\* the Send nodes of an expression, nested block literals included
RECURSIVE SendsIn(_)
SendsIn(expr) ==
  IF expr.kind = "Send"
  THEN {expr} \cup SendsIn(expr.target)
       \cup UNION {SendsIn(expr.args[i]) : i \in 1..Len(expr.args)}
  ELSE IF expr.kind = "Block"
  THEN UNION {SendsIn(expr.assigns[i].expr) : i \in 1..Len(expr.assigns)}
  ELSE {}

\* the Send nodes of the syntax tree
SendsOf(program) ==
  UNION {UNION {SendsIn(program.classes[c].methods[j].block) :
                  j \in 1..Len(program.classes[c].methods)} :
           c \in 1..Len(program.classes)}

\* a bare identifier, or parts name: in a row with non-empty names
MessageSelector(selector) ==
  /\ Len(selector) > 0
  /\ selector[1] # ":"
  /\ \A i \in 1..(Len(selector) - 1) : ~(selector[i] = ":" /\ selector[i + 1] = ":")
  /\ Count(selector, ":") > 0 => endswith(selector, ":")

\* C21: a token that is no identifier ends the expression after a base
\* without creating a Send, a bare colon included, so every Send of a parsed
\* syntax tree has a selector that is a bare identifier or a sequence of
\* parts name: with non-empty names.
C21_SendSelectors ==
  TreeBuilt => \A send \in SendsOf(ast) : MessageSelector(send.selector)

\* class Main:Object{run[|x:=1 :2.]} has exited 0 with the Send of selector
\* ":", target 1 and argument 2 in the syntax tree
C21_Witness ==
  /\ Ran
  /\ stdin = MessageProgram(num_1, SP \o <<":">> \o num_2)
  /\ TreeBuilt
  /\ FirstExpr.kind = "Send"
  /\ FirstExpr.selector = <<":">>
  /\ FirstExpr.target.kind = "Literal"
  /\ Len(FirstExpr.args) = 1
  /\ exit_code = EXIT_OK


\* the parser has run
ParserDone == \E i \in 1..Len(phases) : phases[i] = "parse"

\* the node is the syntax tree of the expression base
Denotes(node, text) ==
  IF text \in {num_1, num_2}
  THEN node.kind = "Literal" /\ node.literal_class = "Integer" /\ node.value = text
  ELSE IF text = tx_string
  THEN node.kind = "Literal" /\ node.literal_class = "String" /\ node.value = <<"s">>
  ELSE IF text \in {s_self, id_y}
  THEN node.kind = "Var" /\ node.name = text
  ELSE IF text = tx_block
  THEN node.kind = "Block" /\ node.parameters = <<>> /\ node.assigns = <<>>
  ELSE IF text = tx_paren_unary
  THEN /\ node.kind = "Send" /\ node.selector = id_m /\ node.args = <<>>
       /\ node.target.kind = "Literal" /\ node.target.value = num_2
  ELSE /\ text = tx_paren_keyword
       /\ node.kind = "Send" /\ node.selector = <<"k", ":">>
       /\ node.target.kind = "Literal" /\ node.target.value = num_1
       /\ Len(node.args) = 1
       /\ node.args[1].kind = "Literal" /\ node.args[1].value = num_2

\* k:q:k: ... with n parts
RECURSIVE KeywordSelector(_)
KeywordSelector(n) ==
  IF n = 0 THEN <<>> ELSE Append(KeywordSelector(n - 1) \o KeywordName(n), ":")

\* the node is the one Send of the keyword message: the selector of all the
\* parts, the target and the arguments in source order
KeywordSend(node, target, arguments) ==
  /\ node.kind = "Send"
  /\ node.selector = KeywordSelector(Len(arguments))
  /\ Denotes(node.target, target)
  /\ Len(node.args) = Len(arguments)
  /\ \A i \in 1..Len(arguments) : Denotes(node.args[i], arguments[i])

\* once the parser has run on a keyword message to one of the targets, the
\* syntax tree holds the one Send of the message, and a following identifier
\* is a unary send to that Send
KeywordSendParsed(targets) ==
  ParserDone =>
    \A target \in targets, arguments \in KeywordArgumentLists, unary \in BOOLEAN :
      stdin = KeywordProgram(target, arguments, unary) =>
        /\ TreeBuilt
        /\ IF unary
           THEN /\ FirstExpr.kind = "Send"
                /\ FirstExpr.selector = id_m
                /\ FirstExpr.args = <<>>
                /\ KeywordSend(FirstExpr.target, target, arguments)
           ELSE KeywordSend(FirstExpr, target, arguments)

\* C22: for an expression t k1:a1 k2:a2 ... kn:an the parser returns one
\* Send with the selector k1:k2:...kn:, the target t and the arguments a1..an
\* in source order, each argument being a single expression base (a
\* parenthesized expression, a block, a number, a string or an identifier)
\* without a message tail of its own: an identifier after the last argument
\* that is not followed by a colon is a unary send whose target is the whole
\* keyword Send.
C22_KeywordSend == KeywordSendParsed(KeywordTargets)

\* the parser has run on class Main:Object{run[|x:=[|] k:2 q:'s'.]} and has
\* returned no syntax tree: the run has ended with the status of an uncaught
\* exception
C22_Witness ==
  /\ Ran
  /\ ParserDone
  /\ stdin = KeywordProgram(tx_block, <<num_2, tx_string>>, FALSE)
  /\ ~TreeBuilt
  /\ exit_code = EXIT_UNCAUGHT


\* the call of lookup_method that analyze_expr made: the call of that number
\* of that method block
CallMade ==
  LET at == method_list(ast)[sem.call.method]
      cls == ast.classes[at.cls]
  IN  next_lookup(cls.methods[at.method].block, cls, sem.class_map,
                  harvest(ast)[cls.name], sem.call.number)[1]

\* cls_name is reached from the class named from by following parents of
\* user-defined classes, in at most n steps
RECURSIVE OnUserChain(_, _, _)
OnUserChain(from, cls_name, n) ==
  \/ from = cls_name
  \/ /\ n > 0
     /\ from \in DOMAIN sem.class_map
     /\ OnUserChain(sem.class_map[from].parent, cls_name, n - 1)

\* while a lookup is under way, lookup_method is at the receiver or at a
\* user-defined class on its parent chain, and lookup_builtin_method is at the
\* first class of the chain that is not user-defined or at Object; a lookup
\* that has returned has the value of lookup_method, and one that has found
\* nothing has ended at Object
LookupOnChain ==
  sem.call.fn # "none" =>
    /\ sem.call.fn = "lookup_method" =>
         /\ sem.call.cls_name \in DOMAIN sem.class_map \cup {CallMade.cls_name}
         /\ OnUserChain(CallMade.cls_name, sem.call.cls_name, Len(ast.classes))
    /\ sem.call.fn = "lookup_builtin_method" =>
         /\ sem.call.cls_name \in builtin_classes
         /\ \/ sem.call.cls_name = s_Object
            \/ /\ sem.call.cls_name \notin DOMAIN sem.class_map
               /\ OnUserChain(CallMade.cls_name, sem.call.cls_name, Len(ast.classes))
    /\ sem.call.fn = "returned" =>
         /\ sem.call.value =
              lookup_method(sem.class_map, CallMade.cls_name, CallMade.selector)
         /\ ~sem.call.value => sem.call.cls_name = s_Object

\* C23: the lookup of a method for a send to a class always terminates: the
\* analysis of the blocks starts only after the parents have been resolved
\* and the inheritance cycles looked for, so every call of lookup_method
\* walks a chain of user-defined classes without a cycle and then the chain
\* of the built-in classes, which ends at Object, also when a user-defined
\* class has the name of a built-in class.
C23_LookupTerminates ==
  /\ [](LookupOnChain)
  /\ (pc = "lookup") ~> (pc = "sem_blocks" /\ sem.call.fn = "returned")

\* the lookup of foo for the receiver Integer has walked the user-defined
\* classes Integer and A and the built-in chain and has found nothing, in a
\* program with the classes A:Object and Integer:A
C23_Witness ==
  /\ pc = "sem_blocks"
  /\ stdin = LookupProgram(s_Integer, m_foo,
               ClassText(cls_A, s_Object, <<>>) \o ClassText(s_Integer, cls_A, <<>>))
  /\ sem.class_map[s_Integer].parent = cls_A
  /\ sem.call.fn = "returned"
  /\ sem.call.selector = m_foo
  /\ sem.call.cls_name = s_Object
  /\ ~sem.call.value

====
